---------------------------- MODULE Spec2Model ----------------------------
(***************************************************************************)
(* Alpha-Squeeze scoring core: the convertible-bond warning calculator     *)
(* (engine/cb_calculator.py) and the squeeze score calculator              *)
(* (engine/squeeze_calculator.py).                                         *)
(*                                                                         *)
(* Numbers.  Python floats are modelled as exact rationals [n, d] in       *)
(* lowest terms with d > 0.  The record with d = 0 stands for the outcome  *)
(* "ZeroDivisionError was raised": a division by zero yields it and every  *)
(* later arithmetic step propagates it, as an exception propagates out of  *)
(* the function.  Fields that the code rounds with round(x, 2) are kept    *)
(* as an integer number of hundredths; round() is Python's round-half-even.*)
(* Binary floating-point representation error is not modelled.             *)
(***************************************************************************)
EXTENDS Integers, Sequences, FiniteSets, TLC

VARIABLES
    config,            \* CBWarningCalculator._config
    squeeze_config,    \* SqueezeCalculator._config
    call,              \* the invocation being made: operation and arguments
    ret,               \* the value returned by (or the error raised by) the call
    consecutive_days,  \* the caller's carried counter (tracking row)
    history,           \* observations fed to the daily fold so far
    objects,           \* the SqueezeConfig objects in memory, by reference
    self_config,       \* the reference held in SqueezeCalculator._config
    pc,                \* where the thread running __init__ / reload_config is
    norm_total,        \* the local `total` of _normalize_weights
    reader,            \* a second thread reading the four weights one by one
    published,         \* the complete weight sets the config objects have held
    scraper            \* one BaseScraper.execute call: its locals and what it did

\* the state of the config objects and of the threads working on them
lifecycle == <<objects, self_config, pc, norm_total, reader, published>>

vars == <<config, squeeze_config, call, ret, consecutive_days, history, lifecycle,
          scraper>>

---------------------------------------------------------------------------
(* Arithmetic *)

Abs(x) == IF x < 0 THEN -x ELSE x

Max(a, b) == IF a >= b THEN a ELSE b

RECURSIVE GCD(_, _)
GCD(a, b) == IF b = 0 THEN a ELSE GCD(b, a % b)

\* The outcome of a division by zero
ZeroDivisionError == [n |-> 0, d |-> 0]

Raised(x) == x.d = 0

\* n / d as a float: lowest terms, positive denominator; d = 0 raises
Rat(n, d) ==
    IF d = 0 THEN ZeroDivisionError
    ELSE LET g == GCD(Abs(n), Abs(d))
             s == IF d < 0 THEN -1 ELSE 1
         IN  [n |-> s * (n \div g), d |-> s * (d \div g)]

Int2R(i) == [n |-> i, d |-> 1]

RAdd(a, b) ==
    IF Raised(a) \/ Raised(b) THEN ZeroDivisionError
    ELSE Rat(a.n * b.d + b.n * a.d, a.d * b.d)

RSub(a, b) ==
    IF Raised(a) \/ Raised(b) THEN ZeroDivisionError
    ELSE Rat(a.n * b.d - b.n * a.d, a.d * b.d)

RMul(a, b) ==
    IF Raised(a) \/ Raised(b) THEN ZeroDivisionError
    ELSE Rat(a.n * b.n, a.d * b.d)

RDiv(a, b) ==
    IF Raised(a) \/ Raised(b) THEN ZeroDivisionError
    ELSE Rat(a.n * b.d, a.d * b.n)

\* Comparisons of two values that were computed without an error
RLe(a, b) == a.n * b.d <= b.n * a.d

RLt(a, b) == a.n * b.d < b.n * a.d

RMin(a, b) ==
    IF Raised(a) \/ Raised(b) THEN ZeroDivisionError
    ELSE IF RLe(a, b) THEN a ELSE b

RMax(a, b) ==
    IF Raised(a) \/ Raised(b) THEN ZeroDivisionError
    ELSE IF RLe(b, a) THEN a ELSE b

\* Python round(): nearest integer to n/d (d > 0), ties to the even one
RoundHalfEven(n, d) ==
    LET q == n \div d
        r == n % d
    IN  IF 2 * r < d THEN q
        ELSE IF 2 * r > d THEN q + 1
        ELSE IF q % 2 = 0 THEN q ELSE q + 1

\* round(x): the nearest integer
Round0(x) == RoundHalfEven(x.n, x.d)

\* round(x, 2), as a number of hundredths
Round2(x) == RoundHalfEven(x.n * 100, x.d)

\* The float that a rounded field (in hundredths) holds
Hundredths(h) == Rat(h, 100)

---------------------------------------------------------------------------
(* CBWarningConfig and CBWarningCalculator *)

\* CBWarningConfig(): thresholds fractions are held in hundredths
DefaultCBWarningConfig ==
    [trigger_threshold_pct |-> 130,
     trigger_days_required |-> 30,
     reset_on_below        |-> TRUE,
     caution_threshold_pct |-> 33,
     warning_threshold_pct |-> 66]

WarningLevel == {"SAFE", "CAUTION", "WARNING", "CRITICAL"}

\* The outcome of float() or int() on a string that is not a literal of
\* that type
ValueError == [n |-> 1, d |-> 0]

\* Python values as the key/value config dict holds them: a str has its
\* text, an int, float or bool its number (True is 1, False is 0)
PyStr(text) == [type |-> "str", text |-> text, num |-> Int2R(0)]

PyInt(i) == [type |-> "int", text |-> "", num |-> Int2R(i)]

PyFloat(x) == [type |-> "float", text |-> "", num |-> x]

PyBool(b) == [type |-> "bool", text |-> "", num |-> Int2R(IF b THEN 1 ELSE 0)]

\* float(text) for the strings that occur as config values
ParseFloat(text) ==
    CASE text = "125.0" -> Rat(125, 1)
      [] text = "20"    -> Rat(20, 1)
      [] text = "20.0"  -> Rat(20, 1)
      [] text = "0.25"  -> Rat(25, 100)
      [] text = "0.75"  -> Rat(75, 100)
      [] text = "0"     -> Rat(0, 1)
      [] text = "1"     -> Rat(1, 1)
      [] OTHER          -> ValueError

\* int(text): only integer literals parse
ParseInt(text) ==
    CASE text = "20" -> Rat(20, 1)
      [] text = "0"  -> Rat(0, 1)
      [] text = "1"  -> Rat(1, 1)
      [] OTHER       -> ValueError

\* float(v)
ToFloat(v) == IF v.type = "str" THEN ParseFloat(v.text) ELSE v.num

\* int(v): a number is truncated towards zero
ToInt(v) ==
    IF v.type = "str" THEN ParseInt(v.text)
    ELSE Int2R((IF v.num.n < 0 THEN -1 ELSE 1) * (Abs(v.num.n) \div v.num.d))

\* bool(v): a str is true unless empty, a number unless zero
ToBool(v) == IF v.type = "str" THEN v.text # "" ELSE v.num.n # 0

\* config.get(key, default)
DictGet(config_dict, key, default) ==
    IF key \in DOMAIN config_dict THEN config_dict[key] ELSE default

\* CBWarningConfig.from_dict (lines 48-57).  The percentage is a whole
\* number and the fractions have two decimals in every config used here,
\* so holding them as an integer and as hundredths loses nothing.
FromDict(config_dict) ==
    LET trigger == ToFloat(DictGet(config_dict, "CB_TRIGGER_THRESHOLD_PCT",
                                   PyFloat(Rat(130, 1))))
        days    == ToInt(DictGet(config_dict, "CB_TRIGGER_DAYS_REQUIRED", PyInt(30)))
        reset   == ToBool(DictGet(config_dict, "CB_RESET_ON_BELOW", PyBool(TRUE)))
        caution == ToFloat(DictGet(config_dict, "CB_CAUTION_THRESHOLD_PCT",
                                   PyFloat(Rat(33, 100))))
        warning == ToFloat(DictGet(config_dict, "CB_WARNING_THRESHOLD_PCT",
                                   PyFloat(Rat(66, 100))))
    IN  IF Raised(trigger) \/ Raised(days) \/ Raised(caution) \/ Raised(warning)
        THEN [op |-> "from_dict", raised |-> TRUE]
        ELSE [op |-> "from_dict", raised |-> FALSE,
              value |-> [trigger_threshold_pct |-> trigger.n \div trigger.d,
                         trigger_days_required |-> days.n,
                         reset_on_below        |-> reset,
                         caution_threshold_pct |-> (caution.n * 100) \div caution.d,
                         warning_threshold_pct |-> (warning.n * 100) \div warning.d]]

\* the thresholds truncated to whole days before the comparison
DetermineWarningLevelTruncated(cfg, days) ==
    LET threshold_caution ==
            (cfg.trigger_days_required * cfg.caution_threshold_pct) \div 100
        threshold_warning ==
            (cfg.trigger_days_required * cfg.warning_threshold_pct) \div 100
    IN  IF days >= cfg.trigger_days_required THEN "CRITICAL"
        ELSE IF days >= threshold_warning THEN "WARNING"
        ELSE IF days >= threshold_caution THEN "CAUTION"
        ELSE "SAFE"

\* _determine_warning_level: the products days_required * fraction are
\* compared unrounded
DetermineWarningLevel(cfg, days) ==
    LET threshold_caution ==
            Rat(cfg.trigger_days_required * cfg.caution_threshold_pct, 100)
        threshold_warning ==
            Rat(cfg.trigger_days_required * cfg.warning_threshold_pct, 100)
    IN  IF days >= cfg.trigger_days_required THEN "CRITICAL"
        ELSE IF RLe(threshold_warning, Int2R(days)) THEN "WARNING"
        ELSE IF RLe(threshold_caution, Int2R(days)) THEN "CAUTION"
        ELSE "SAFE"

\* the ratio left as a fraction, not scaled to a percentage
PriceRatioUnscaled(current_price, conversion_price) ==
    IF conversion_price <= 0 THEN Int2R(0)
    ELSE Rat(current_price, conversion_price)

\* price_ratio before rounding (lines 190-194)
PriceRatio(current_price, conversion_price) ==
    IF conversion_price <= 0 THEN Int2R(0)
    ELSE RMul(Rat(current_price, conversion_price), Int2R(100))

\* the comparison made strict: a close at the trigger price is not counted
IsAboveTriggerStrict(cfg, current_price, conversion_price) ==
    LET trigger_price ==
            RMul(Int2R(conversion_price), Rat(cfg.trigger_threshold_pct, 100))
    IN  RLt(trigger_price, Int2R(current_price))

\* is_above_trigger (lines 196-198)
IsAboveTrigger(cfg, current_price, conversion_price) ==
    LET trigger_price ==
            RMul(Int2R(conversion_price), Rat(cfg.trigger_threshold_pct, 100))
    IN  RLe(trigger_price, Int2R(current_price))

\* reset_on_below ignored: the counter is always reset
NextConsecutiveDaysAlwaysReset(cfg, is_above_trigger, previous_consecutive_days) ==
    IF is_above_trigger THEN previous_consecutive_days + 1 ELSE 0

\* reset_on_below ignored: the counter is always held
NextConsecutiveDaysNeverReset(cfg, is_above_trigger, previous_consecutive_days) ==
    IF is_above_trigger THEN previous_consecutive_days + 1
    ELSE previous_consecutive_days

\* consecutive_days (lines 200-204)
NextConsecutiveDays(cfg, is_above_trigger, previous_consecutive_days) ==
    IF is_above_trigger THEN previous_consecutive_days + 1
    ELSE IF cfg.reset_on_below THEN 0 ELSE previous_consecutive_days

\* the cap at 100 left out
TriggerProgressUncapped(cfg, days) ==
    RMul(Rat(days, cfg.trigger_days_required), Int2R(100))

\* trigger_progress before rounding (line 207)
TriggerProgress(cfg, days) ==
    RMin(Int2R(100), RMul(Rat(days, cfg.trigger_days_required), Int2R(100)))

\* days_remaining (line 208)
DaysRemaining(cfg, days) == Max(0, cfg.trigger_days_required - days)

\* the guard reduced to "previous_balance is not None"
BalanceChangePctUnguarded(outstanding_balance, previous_balance) ==
    IF previous_balance # {}
    THEN LET pb == CHOOSE v \in previous_balance : TRUE
         IN  RMul(Rat(outstanding_balance - pb, pb), Int2R(100))
    ELSE Int2R(0)

\* balance_change_pct before rounding (lines 210-214); previous_balance is
\* an Optional[float]: {} is None, {v} is the float v
BalanceChangePct(outstanding_balance, previous_balance) ==
    IF \E v \in previous_balance : v # 0 /\ v > 0
    THEN LET pb == CHOOSE v \in previous_balance : TRUE
         IN  RMul(Rat(outstanding_balance - pb, pb), Int2R(100))
    ELSE Int2R(0)

\* calculate_warning: the CBWarningResult, or the error raised
CalculateWarningResult(cfg, a) ==
    LET price_ratio      == PriceRatio(a.current_price, a.conversion_price)
        is_above_trigger == IsAboveTrigger(cfg, a.current_price, a.conversion_price)
        days             == NextConsecutiveDays(cfg, is_above_trigger,
                                                a.previous_consecutive_days)
        trigger_progress == TriggerProgress(cfg, days)
        days_remaining   == DaysRemaining(cfg, days)
        balance_change   == BalanceChangePct(a.outstanding_balance, a.previous_balance)
        warning_level    == DetermineWarningLevel(cfg, days)
    IN  IF Raised(price_ratio) \/ Raised(trigger_progress) \/ Raised(balance_change)
        THEN [op |-> "calculate_warning", raised |-> TRUE]
        ELSE [op                  |-> "calculate_warning",
              raised              |-> FALSE,
              current_price       |-> a.current_price,
              conversion_price    |-> a.conversion_price,
              price_ratio         |-> Round2(price_ratio),
              is_above_trigger    |-> is_above_trigger,
              consecutive_days    |-> days,
              days_remaining      |-> days_remaining,
              trigger_progress    |-> Round2(trigger_progress),
              outstanding_balance |-> a.outstanding_balance,
              balance_change_pct  |-> Round2(balance_change),
              warning_level       |-> warning_level]

\* the discount branch without its cap of 40
PremiumComponentUncapped(premium_rate) ==
    IF RLt(premium_rate, Int2R(0))
    THEN RMul([n |-> Abs(premium_rate.n), d |-> premium_rate.d], Int2R(2))
    ELSE IF RLt(premium_rate, Int2R(10))
    THEN RSub(Int2R(30), RMul(premium_rate, Int2R(2)))
    ELSE RMax(Int2R(0), RSub(Int2R(20), premium_rate))

\* calculate_cb_score, premium part (lines 308-315)
PremiumComponent(premium_rate) ==
    IF RLt(premium_rate, Int2R(0))
    THEN RMin(Int2R(40),
              RMul([n |-> Abs(premium_rate.n), d |-> premium_rate.d], Int2R(2)))
    ELSE IF RLt(premium_rate, Int2R(10))
    THEN RSub(Int2R(30), RMul(premium_rate, Int2R(2)))
    ELSE RMax(Int2R(0), RSub(Int2R(20), premium_rate))

\* calculate_cb_score, remaining balance part (lines 317-325)
RemainingComponent(remaining_ratio) ==
    IF RLt(Rat(7, 10), remaining_ratio) THEN 30
    ELSE IF RLt(Rat(5, 10), remaining_ratio) THEN 25
    ELSE IF RLt(Rat(3, 10), remaining_ratio) THEN 15
    ELSE 5

\* calculate_cb_score, days above trigger part (lines 327-337)
DaysComponent(days_above_trigger) ==
    IF days_above_trigger >= 25 THEN 30
    ELSE IF days_above_trigger >= 15 THEN 25
    ELSE IF days_above_trigger >= 10 THEN 15
    ELSE IF days_above_trigger >= 5 THEN 8
    ELSE 0

\* the redemption flag not consulted
CalculateCbScoreNoOverride(premium_rate, remaining_ratio, days_above_trigger, redemption_called) ==
    RMin(Int2R(100),
         RAdd(RAdd(PremiumComponent(premium_rate),
                   Int2R(RemainingComponent(remaining_ratio))),
              Int2R(DaysComponent(days_above_trigger))))

\* calculate_cb_score: premium_rate and remaining_ratio are floats
CalculateCbScore(premium_rate, remaining_ratio, days_above_trigger, redemption_called) ==
    IF redemption_called THEN Int2R(100)
    ELSE RMin(Int2R(100),
              RAdd(RAdd(PremiumComponent(premium_rate),
                        Int2R(RemainingComponent(remaining_ratio))),
                   Int2R(DaysComponent(days_above_trigger))))

\* `x or 0` on a nullable cell: None (the empty set) becomes 0
OrZero(cell) == IF cell = {} THEN 0 ELSE CHOOSE v \in cell : TRUE

\* the skip test without its conversion-price half
SkipsRowPriceOnly(current_price, conversion_price) ==
    current_price <= 0

\* batch_calculate_cb_warnings: the rows it passes over (line 408)
SkipsRow(current_price, conversion_price) ==
    current_price <= 0 \/ conversion_price <= 0

\* batch_calculate_cb_warnings: the joined row of one bond (lines 368-401).
\* The price frame has at most one row per (ticker, trade_date) and the
\* tracking frame at most one row per cb_ticker.
CombinedRow(cb, stock_prices_df, previous_tracking_df, trade_date) ==
    LET prices_for_date == {r \in stock_prices_df : r.trade_date = trade_date}
        priced          == {r \in prices_for_date : r.ticker = cb.underlying_ticker}
        close_price     == IF priced = {} THEN {}
                           ELSE (CHOOSE r \in priced : TRUE).close_price
        tracking        == IF previous_tracking_df = {} THEN {}
                           ELSE CHOOSE df \in previous_tracking_df : TRUE
        tracked         == {r \in tracking : r.cb_ticker = cb.cb_ticker}
        joined          == tracking # {} /\ tracked # {}
        prev            == CHOOSE r \in tracked : TRUE
    IN  [cb_ticker                |-> cb.cb_ticker,
         underlying_ticker        |-> cb.underlying_ticker,
         current_conversion_price |-> cb.current_conversion_price,
         outstanding_amount       |-> cb.outstanding_amount,
         close_price              |-> {OrZero(close_price)},
         consecutive_days_above   |-> IF joined
                                      THEN {OrZero(prev.consecutive_days_above)}
                                      ELSE {0},
         prev_balance             |-> IF joined THEN prev.outstanding_balance ELSE {}]

\* batch_calculate_cb_warnings: the arguments of calculate_warning for a
\* joined row (lines 405-421)
RowArguments(row) ==
    [cb_ticker                 |-> row.cb_ticker,
     current_price             |-> OrZero(row.close_price),
     conversion_price          |-> OrZero(row.current_conversion_price),
     previous_consecutive_days |-> OrZero(row.consecutive_days_above),
     outstanding_balance       |-> OrZero(row.outstanding_amount),
     previous_balance          |-> row.prev_balance]

\* batch_calculate_cb_warnings (lines 342-430): the list of results, in the
\* order of the issuance frame
BatchCalculateCbWarnings(cfg, cb_issuance_df, stock_prices_df, previous_tracking_df, trade_date) ==
    LET arguments == [i \in 1 .. Len(cb_issuance_df) |->
                         RowArguments(CombinedRow(cb_issuance_df[i], stock_prices_df,
                                                  previous_tracking_df, trade_date))]
        computed  == SelectSeq(arguments,
                               LAMBDA a : ~ SkipsRow(a.current_price, a.conversion_price))
        results   == [i \in 1 .. Len(computed) |->
                         [cb_ticker |-> computed[i].cb_ticker,
                          result    |-> CalculateWarningResult(cfg, computed[i])]]
    IN  IF \E i \in 1 .. Len(results) : results[i].result.raised
        THEN [op |-> "batch_calculate_cb_warnings", raised |-> TRUE]
        ELSE [op |-> "batch_calculate_cb_warnings", raised |-> FALSE,
              rows |-> results]

\* get_critical_cbs: level_order (lines 449-454)
LevelOrder(level) ==
    CASE level = "SAFE"     -> 0
      [] level = "CAUTION"  -> 1
      [] level = "WARNING"  -> 2
      [] level = "CRITICAL" -> 3
      [] OTHER              -> 0

\* the level filter made strict: rows at min_level itself are dropped
FilterByLevelStrict(warnings_df, min_level) ==
    SelectSeq(warnings_df,
              LAMBDA row : LevelOrder(row.warning_level) > LevelOrder(min_level))

\* get_critical_cbs: the level filter (lines 458-464); a frame is the
\* sequence of its rows
FilterByLevel(warnings_df, min_level) ==
    SelectSeq(warnings_df,
              LAMBDA row : LevelOrder(row.warning_level) >= LevelOrder(min_level))

\* DataFrame.sort('consecutive_days', descending=True): maintain_order is
\* not asked for, so rows with equal keys come out in any order
SortDescending(df) ==
    LET n == Len(df)
        orders == {f \in [1 .. n -> 1 .. n] : \A i, j \in 1 .. n : i # j => f[i] # f[j]}
    IN  { [i \in 1 .. n |-> df[f[i]]] :
              f \in {g \in orders :
                         \A i \in 1 .. n : \A j \in (i + 1) .. n :
                             df[g[i]].consecutive_days >= df[g[j]].consecutive_days} }

\* DataFrame.head(limit), limit >= 0
HeadRows(df, limit) ==
    SubSeq(df, 1, IF limit < Len(df) THEN limit ELSE Len(df))

\* get_critical_cbs: the frames it can return
GetCriticalCbs(warnings_df, min_level, limit) ==
    { HeadRows(sorted, limit) :
          sorted \in SortDescending(FilterByLevel(warnings_df, min_level)) }

---------------------------------------------------------------------------
(* SqueezeConfig and SqueezeCalculator *)

DefaultSqueezeConfig ==
    [weight_borrow     |-> Rat(35, 100),
     weight_gamma      |-> Rat(25, 100),
     weight_margin     |-> Rat(20, 100),
     weight_momentum   |-> Rat(20, 100),
     bullish_threshold |-> 70,
     bearish_threshold |-> 40,
     margin_tier1_max  |-> 5,
     margin_tier2_max  |-> 10,
     margin_tier3_max  |-> 20]

\* the four weight fields of a config object, in declaration order
Weights(cfg) ==
    <<cfg.weight_borrow, cfg.weight_gamma, cfg.weight_margin, cfg.weight_momentum>>

TotalWeight(cfg) ==
    RAdd(RAdd(cfg.weight_borrow, cfg.weight_gamma),
         RAdd(cfg.weight_margin, cfg.weight_momentum))

\* SqueezeConfig.validate: abs(total_weight - 1.0) > 0.001 is invalid
Validate(cfg) ==
    LET diff == RSub(TotalWeight(cfg), Int2R(1))
    IN  ~ RLt(Rat(1, 1000), [n |-> Abs(diff.n), d |-> diff.d])

\* SqueezeCalculator._normalize_weights
NormalizeWeights(cfg) ==
    LET total == TotalWeight(cfg)
    IN  IF RLt(Int2R(0), total)
        THEN [cfg EXCEPT !.weight_borrow   = RDiv(@, total),
                         !.weight_gamma    = RDiv(@, total),
                         !.weight_margin   = RDiv(@, total),
                         !.weight_momentum = RDiv(@, total)]
        ELSE cfg

\* the validity test skipped: every passed config is normalized
SqueezeCalculatorInitAlways(cfg) == NormalizeWeights(cfg)

\* SqueezeCalculator.__init__ with a config passed in: the active config
SqueezeCalculatorInit(cfg) ==
    IF ~ Validate(cfg) THEN NormalizeWeights(cfg) ELSE cfg

\* abs() left out of the divisor of the short-covering branch
CalculateBorrowScoreNoAbs(borrow_change, historical_range) ==
    LET min_val == historical_range[1]
        max_val == historical_range[2]
    IN  IF borrow_change >= 0
        THEN RMax(Int2R(0),
                  RSub(Int2R(30), RMul(Rat(borrow_change, max_val), Int2R(30))))
        ELSE LET normalized == Rat(Abs(borrow_change), min_val)
             IN  RMin(Int2R(100), RAdd(Int2R(50), RMul(normalized, Int2R(50))))

\* calculate_borrow_score(borrow_change, (min_val, max_val))
CalculateBorrowScore(borrow_change, historical_range) ==
    LET min_val == historical_range[1]
        max_val == historical_range[2]
    IN  IF borrow_change >= 0
        THEN RMax(Int2R(0),
                  RSub(Int2R(30), RMul(Rat(borrow_change, max_val), Int2R(30))))
        ELSE LET normalized == Rat(Abs(borrow_change), Abs(min_val))
             IN  RMin(Int2R(100), RAdd(Int2R(50), RMul(normalized, Int2R(50))))

\* the undervalued branch given the slope of the overvalued one
CalculateGammaScoreSameSlope(iv, hv) ==
    IF iv <= 0 \/ hv <= 0 THEN Int2R(50)
    ELSE LET divergence == Rat(hv - iv, hv)
         IN  IF RLt(Int2R(0), divergence)
             THEN RMin(Int2R(100), RAdd(Int2R(50), RMul(divergence, Int2R(50))))
             ELSE RMax(Int2R(0), RAdd(Int2R(50), RMul(divergence, Int2R(50))))

\* calculate_gamma_score(iv, hv); iv and hv are given in hundredths
CalculateGammaScore(iv, hv) ==
    IF iv <= 0 \/ hv <= 0 THEN Int2R(50)
    ELSE LET divergence == Rat(hv - iv, hv)
         IN  IF RLt(Int2R(0), divergence)
             THEN RMin(Int2R(100), RAdd(Int2R(50), RMul(divergence, Int2R(100))))
             ELSE RMax(Int2R(0), RAdd(Int2R(50), RMul(divergence, Int2R(50))))

\* the second tier interpolated over tier2 instead of tier2 - tier1
CalculateMarginScoreWrongSpan(cfg, margin_ratio) ==
    LET tier1 == cfg.margin_tier1_max
        tier2 == cfg.margin_tier2_max
        tier3 == cfg.margin_tier3_max
    IN  IF margin_ratio <= 0 THEN Int2R(0)
        ELSE IF margin_ratio >= tier3 THEN Int2R(100)
        ELSE IF margin_ratio >= tier2
        THEN RAdd(Int2R(70), RMul(Rat(margin_ratio - tier2, tier3 - tier2), Int2R(30)))
        ELSE IF margin_ratio >= tier1
        THEN RAdd(Int2R(40), RMul(Rat(margin_ratio - tier1, tier2), Int2R(30)))
        ELSE RMul(Rat(margin_ratio, tier1), Int2R(40))

\* calculate_margin_score(margin_ratio)
CalculateMarginScore(cfg, margin_ratio) ==
    LET tier1 == cfg.margin_tier1_max
        tier2 == cfg.margin_tier2_max
        tier3 == cfg.margin_tier3_max
    IN  IF margin_ratio <= 0 THEN Int2R(0)
        ELSE IF margin_ratio >= tier3 THEN Int2R(100)
        ELSE IF margin_ratio >= tier2
        THEN RAdd(Int2R(70), RMul(Rat(margin_ratio - tier2, tier3 - tier2), Int2R(30)))
        ELSE IF margin_ratio >= tier1
        THEN RAdd(Int2R(40), RMul(Rat(margin_ratio - tier1, tier2 - tier1), Int2R(30)))
        ELSE RMul(Rat(margin_ratio, tier1), Int2R(40))

\* calculate_momentum_score; resistance_level is an Optional[float]:
\* {} is None, {v} is the float v
CalculateMomentumScore(price, prev_price, volume, avg_volume, resistance_level) ==
    IF prev_price <= 0 \/ avg_volume <= 0 THEN Int2R(50)
    ELSE LET price_change == Rat(price - prev_price, prev_price)
             volume_ratio == Rat(volume, avg_volume)
             base_score ==
                 IF RLt(Int2R(0), price_change)
                 THEN RAdd(Int2R(50), RMin(Int2R(25), RMul(price_change, Int2R(500))))
                 ELSE RAdd(Int2R(50), RMax(Int2R(-25), RMul(price_change, Int2R(500))))
             volume_bonus ==
                 IF RLt(Int2R(2), volume_ratio) THEN 25
                 ELSE IF RLt(Rat(3, 2), volume_ratio) THEN 15
                 ELSE IF RLt(Int2R(1), volume_ratio) THEN 5
                 ELSE -10
             breakout_bonus ==
                 IF \E r \in resistance_level : r # 0 /\ price > r THEN 10 ELSE 0
         IN  RMax(Int2R(0),
                  RMin(Int2R(100),
                       RAdd(base_score, Int2R(volume_bonus + breakout_bonus))))

\* _generate_comment: the parts of the comment.  sorted(..., reverse=True)
\* is stable, so the top factor is the first one holding the maximum.
GenerateComment(factors, trend) ==
    LET order == <<"borrow_score", "gamma_score", "margin_score", "momentum_score">>
        top == CHOOSE i \in 1 .. 4 :
                   /\ \A j \in 1 .. 4 : factors[order[j]] <= factors[order[i]]
                   /\ \A j \in 1 .. (i - 1) : factors[order[j]] < factors[order[i]]
    IN  IF trend = "BULLISH"
        THEN <<"squeeze potential high", order[top]>>
             \o (IF factors.gamma_score > 7000 THEN <<"gamma squeeze">> ELSE <<>>)
        ELSE IF trend = "BEARISH" THEN <<"squeeze unlikely">>
        ELSE <<"neutral">>

\* the thresholds of the config ignored: always 70 and 40
DetermineTrendDefaultThresholds(cfg, score) ==
    IF score >= 70 THEN "BULLISH"
    ELSE IF score <= 40 THEN "BEARISH"
    ELSE "NEUTRAL"

\* calculate_squeeze_score, lines 335-341: the trend of a score
DetermineTrend(cfg, score) ==
    IF score >= cfg.bullish_threshold THEN "BULLISH"
    ELSE IF score <= cfg.bearish_threshold THEN "BEARISH"
    ELSE "NEUTRAL"

\* calculate_squeeze_score: the SqueezeSignal, or the error raised.  The
\* factors of the signal are rounded to two decimals (held in hundredths).
CalculateSqueezeScore(cfg, a) ==
    LET borrow_score   == CalculateBorrowScore(a.borrow_change, a.borrow_range)
        gamma_score    == CalculateGammaScore(a.iv, a.hv)
        margin_score   == CalculateMarginScore(cfg, a.margin_ratio)
        momentum_score == CalculateMomentumScore(a.price, a.prev_price, a.volume,
                                                 a.avg_volume, {})
        total_score ==
            RAdd(RAdd(RMul(cfg.weight_borrow, borrow_score),
                      RMul(cfg.weight_gamma, gamma_score)),
                 RAdd(RMul(cfg.weight_margin, margin_score),
                      RMul(cfg.weight_momentum, momentum_score)))
    IN  IF Raised(total_score)
        THEN [op |-> "calculate_squeeze_score", raised |-> TRUE]
        ELSE LET factors == [borrow_score   |-> Round2(borrow_score),
                             gamma_score    |-> Round2(gamma_score),
                             margin_score   |-> Round2(margin_score),
                             momentum_score |-> Round2(momentum_score)]
                 score == Round0(total_score)
                 trend == DetermineTrend(cfg, score)
             IN  [op      |-> "calculate_squeeze_score",
                  raised  |-> FALSE,
                  score   |-> score,
                  trend   |-> trend,
                  comment |-> GenerateComment(factors, trend),
                  factors |-> factors]

---------------------------------------------------------------------------
(* Bounds and input sets *)

\* largest previous_consecutive_days / days_above_trigger passed by a caller
MaxPrev == 32

\* number of daily observations folded
MaxObs == 5

\* most bonds in an issuance frame handed to batch_calculate_cb_warnings
MaxCbs == 2

\* the underlying stocks
Tickers == {1, 2}

\* most rows of a warnings frame handed to get_critical_cbs
MaxRows == 3

CBWarningConfigs ==
    { DefaultCBWarningConfig,
      [DefaultCBWarningConfig EXCEPT !.reset_on_below = FALSE],
      [trigger_threshold_pct |-> 125, trigger_days_required |-> 7,
       reset_on_below |-> TRUE, caution_threshold_pct |-> 33,
       warning_threshold_pct |-> 66],
      [trigger_threshold_pct |-> 130, trigger_days_required |-> 3,
       reset_on_below |-> TRUE, caution_threshold_pct |-> 33,
       warning_threshold_pct |-> 66] }

CurrentPrices == {0, 9, 12, 13, 14}

ConversionPrices == {-10, 0, 7, 10}

OutstandingBalances == {0, 30, 35}

PreviousBalances == {{}, {0}, {-5}, {30}, {35}}

PremiumRates == {Rat(n, 2) : n \in {-60, -41, -40, -10, -1, 0, 1, 19, 20, 25, 40, 100}}

RemainingRatios == {Rat(n, 100) : n \in {-10, 0, 30, 31, 50, 51, 70, 71, 100, 150}}

SqueezeConfigs ==
    { DefaultSqueezeConfig,
      [DefaultSqueezeConfig EXCEPT !.weight_borrow = Rat(1, 2), !.weight_gamma = Rat(1, 2),
                                   !.weight_margin = Rat(1, 2), !.weight_momentum = Rat(1, 2)],
      [weight_borrow |-> Rat(4, 10), weight_gamma |-> Rat(3, 10),
       weight_margin |-> Rat(2, 10), weight_momentum |-> Rat(1, 10),
       bullish_threshold |-> 60, bearish_threshold |-> 30,
       margin_tier1_max |-> 4, margin_tier2_max |-> 8, margin_tier3_max |-> 16],
      [DefaultSqueezeConfig EXCEPT !.margin_tier1_max = 0, !.margin_tier2_max = 8,
                                   !.margin_tier3_max = 15] }

\* configs handed to the constructor: also weights summing to 0, to a
\* negative number, to 1.0005 (within the tolerance) and to 1.002 (outside)
ConstructorConfigs ==
    SqueezeConfigs \cup
    { [DefaultSqueezeConfig EXCEPT !.weight_borrow = Int2R(0), !.weight_gamma = Int2R(0),
                                   !.weight_margin = Int2R(0), !.weight_momentum = Int2R(0)],
      [DefaultSqueezeConfig EXCEPT !.weight_borrow = Rat(-1, 2), !.weight_gamma = Rat(1, 10),
                                   !.weight_margin = Rat(1, 10), !.weight_momentum = Rat(1, 10)],
      [DefaultSqueezeConfig EXCEPT !.weight_momentum = Rat(401, 2000)],
      [DefaultSqueezeConfig EXCEPT !.weight_momentum = Rat(202, 1000)] }

BorrowChanges == {-4, -1, 0, 1, 10}

BorrowRanges == {<<-2, 2>>, <<-14, 7>>, <<-2, -1>>, <<-2, 0>>, <<0, 2>>}

NoCall == [op |-> "none"]

NoRet == [op |-> "none"]

WarningCalls ==
    [op : {"calculate_warning"},
     current_price : CurrentPrices,
     conversion_price : ConversionPrices,
     previous_consecutive_days : -1 .. MaxPrev,
     outstanding_balance : OutstandingBalances,
     previous_balance : PreviousBalances]

CbScoreCalls ==
    [op : {"calculate_cb_score"},
     premium_rate : PremiumRates,
     remaining_ratio : RemainingRatios,
     days_above_trigger : -1 .. MaxPrev,
     redemption_called : BOOLEAN]

SqueezeScoreCalls ==
    [op : {"calculate_squeeze_score"},
     borrow_change : BorrowChanges,
     borrow_range : BorrowRanges,
     margin_ratio : {0, 3, 15, 25},
     iv : {0, 20, 40},
     hv : {0, 25},
     price : {90, 102, 110},
     prev_price : {0, 100},
     volume : {10, 21},
     avg_volume : {0, 10}]

BorrowScoreCalls ==
    [op : {"calculate_borrow_score"},
     borrow_change : BorrowChanges \cup {-2, 2},
     historical_range : BorrowRanges \cup {<<0, 0>>, <<1, 2>>, <<1, -1>>}]

GammaScoreCalls ==
    [op : {"calculate_gamma_score"},
     iv : {-5, 0, 10, 20, 25, 30, 40, 60},
     hv : {-5, 0, 25, 30}]

MarginScoreCalls ==
    [op : {"calculate_margin_score"},
     margin_ratio : {-1, 0, 1, 3, 4, 5, 7, 8, 10, 15, 16, 20, 25}]

MomentumScoreCalls ==
    [op : {"calculate_momentum_score"},
     price : {90, 100, 102, 105, 110},
     prev_price : {-1, 0, 100},
     volume : {0, 10, 11, 15, 16, 20, 21},
     avg_volume : {-1, 0, 10},
     resistance_level : {{}, {0}, {95}, {105}}]

\* frames of calculate_warning results under the default config: row i is
\* the result for the i-th bond
WarningFrames ==
    UNION { [1 .. n -> {5, 15, 25, 30, 35}] : n \in 0 .. MaxRows }

CriticalCbsCalls ==
    [op : {"get_critical_cbs"},
     consecutive_days : WarningFrames,
     min_level : WarningLevel,
     limit : 0 .. MaxRows]

\* the warnings frame of a get_critical_cbs call
WarningsDf(a) ==
    [i \in 1 .. Len(a.consecutive_days) |->
        [cb_ticker        |-> i,
         consecutive_days |-> a.consecutive_days[i],
         warning_level    |-> DetermineWarningLevel(DefaultCBWarningConfig,
                                                    a.consecutive_days[i])]]

\* close_price cells on the date asked for: null or a number
ClosesOnDate == {{}, {0}, {-5}, {9}, {13}}

BatchCalls ==
    [op : {"batch_calculate_cb_warnings"},
     cbs : UNION { [1 .. n -> [underlying_ticker : Tickers,
                               current_conversion_price : {{}, {0}, {-10}, {10}}]] :
                     n \in 0 .. MaxCbs },
     closes : UNION { [quoted -> ClosesOnDate] : quoted \in SUBSET Tickers },
     tracked : {{}} \cup {{bonds} : bonds \in SUBSET (1 .. MaxCbs)},
     trade_date : {"2026-01-19"}]

\* the issuance frame of a batch call: bond i has cb_ticker i
CbIssuanceDf(a) ==
    [i \in 1 .. Len(a.cbs) |->
        [cb_ticker                |-> i,
         underlying_ticker        |-> a.cbs[i].underlying_ticker,
         current_conversion_price |-> a.cbs[i].current_conversion_price,
         outstanding_amount       |-> {30}]]

\* the price frame of a batch call: every stock closed at 14 on the earlier
\* date, and the stocks a.closes names have a row on the date asked for
StockPricesDf(a) ==
    {[ticker |-> t, trade_date |-> "2026-01-16", close_price |-> {14}] : t \in Tickers}
    \cup {[ticker |-> t, trade_date |-> a.trade_date, close_price |-> a.closes[t]] :
              t \in DOMAIN a.closes}

\* the tracking frame of a batch call: None, or a row (29 days, balance 35)
\* for each tracked bond
PreviousTrackingDf(a) ==
    { {[cb_ticker |-> i, consecutive_days_above |-> {29},
        outstanding_balance |-> {35}] : i \in bonds} : bonds \in a.tracked }

\* values a key of the config dict can be given
SuppliedValues ==
    [CB_TRIGGER_THRESHOLD_PCT  |-> {PyStr("125.0"), PyFloat(Rat(125, 1))},
     CB_TRIGGER_DAYS_REQUIRED  |-> {PyStr("20"), PyInt(20), PyStr("20.0")},
     CB_RESET_ON_BELOW         |-> {PyBool(TRUE), PyBool(FALSE), PyInt(0), PyInt(1),
                                    PyStr("true"), PyStr("false"), PyStr("0"),
                                    PyStr("1")},
     CB_CAUTION_THRESHOLD_PCT  |-> {PyStr("0.25"), PyFloat(Rat(25, 100))},
     CB_WARNING_THRESHOLD_PCT  |-> {PyStr("0.75")}]

\* config dicts: any subset of the five keys, each with one of its values
ConfigDicts ==
    UNION { {d \in [keys -> UNION {SuppliedValues[k] : k \in keys}] :
                \A k \in keys : d[k] \in SuppliedValues[k]} :
            keys \in SUBSET DOMAIN SuppliedValues }

FromDictCalls == [op : {"from_dict"}, config : ConfigDicts]

ConstructCalls == [op : {"__init__"}, config : ConstructorConfigs]

\* what the daily fold observes: (price, conversion_price)
Observations == [current_price : {12, 13, 14}, conversion_price : {10}]

\* no thread is constructing, reloading or reading a config object
NoReader == [via |-> "none", seen |-> <<>>]

\* no execute call is under way
NoExecute == [pc |-> "none"]

LifecycleIdle ==
    /\ scraper = NoExecute
    /\ objects = <<>>
    /\ self_config = 0
    /\ pc = "idle"
    /\ norm_total = Int2R(0)
    /\ reader = NoReader
    /\ published = {}

---------------------------------------------------------------------------
(* Direct calls on a constructed calculator *)

Init ==
    /\ \/ /\ config \in CBWarningConfigs
          /\ squeeze_config = SqueezeCalculatorInit(DefaultSqueezeConfig)
          /\ call \in WarningCalls \cup CbScoreCalls
       \/ /\ config \in CBWarningConfigs
          /\ squeeze_config = SqueezeCalculatorInit(DefaultSqueezeConfig)
          /\ call \in BatchCalls
       \/ /\ config = DefaultCBWarningConfig
          /\ squeeze_config = SqueezeCalculatorInit(DefaultSqueezeConfig)
          /\ call \in CriticalCbsCalls \cup FromDictCalls
       \/ /\ config = DefaultCBWarningConfig
          /\ squeeze_config \in {SqueezeCalculatorInit(c) : c \in SqueezeConfigs}
          /\ call \in SqueezeScoreCalls \cup BorrowScoreCalls \cup GammaScoreCalls
                      \cup MarginScoreCalls \cup MomentumScoreCalls
       \/ /\ config = DefaultCBWarningConfig
          /\ squeeze_config = DefaultSqueezeConfig
          /\ call \in ConstructCalls
    /\ ret = NoRet
    /\ consecutive_days = 0
    /\ history = <<>>
    /\ LifecycleIdle

\* the value of a factor function, or the error it raised
FactorReturn(op, value) ==
    IF Raised(value) THEN [op |-> op, raised |-> TRUE]
    ELSE [op |-> op, raised |-> FALSE, value |-> value]

\* SqueezeCalculator(config=call.config, use_database=False)
Construct ==
    /\ call.op = "__init__"
    /\ ret = NoRet
    /\ squeeze_config' = SqueezeCalculatorInit(call.config)
    /\ ret' = [op |-> "__init__", raised |-> Raised(TotalWeight(squeeze_config'))]
    /\ UNCHANGED <<config, call, consecutive_days, history>>
    /\ UNCHANGED <<lifecycle, scraper>>

CalculateWarning ==
    /\ call.op = "calculate_warning"
    /\ ret = NoRet
    /\ ret' = CalculateWarningResult(config, call)
    /\ UNCHANGED <<config, squeeze_config, call, consecutive_days, history>>
    /\ UNCHANGED <<lifecycle, scraper>>

CbScore ==
    /\ call.op = "calculate_cb_score"
    /\ ret = NoRet
    /\ ret' = [op |-> "calculate_cb_score", raised |-> FALSE,
               value |-> CalculateCbScore(call.premium_rate, call.remaining_ratio,
                                          call.days_above_trigger,
                                          call.redemption_called)]
    /\ UNCHANGED <<config, squeeze_config, call, consecutive_days, history>>
    /\ UNCHANGED <<lifecycle, scraper>>

\* CBWarningConfig.from_dict(call.config): a classmethod, it builds a new
\* config object
ConfigFromDict ==
    /\ call.op = "from_dict"
    /\ ret = NoRet
    /\ ret' = FromDict(call.config)
    /\ UNCHANGED <<config, squeeze_config, call, consecutive_days, history>>
    /\ UNCHANGED <<lifecycle, scraper>>

BatchCalculate ==
    /\ call.op = "batch_calculate_cb_warnings"
    /\ ret = NoRet
    /\ ret' = BatchCalculateCbWarnings(config, CbIssuanceDf(call), StockPricesDf(call),
                                       PreviousTrackingDf(call), call.trade_date)
    /\ UNCHANGED <<config, squeeze_config, call, consecutive_days, history>>
    /\ UNCHANGED <<lifecycle, scraper>>

CriticalCbs ==
    /\ call.op = "get_critical_cbs"
    /\ ret = NoRet
    /\ \E rows \in GetCriticalCbs(WarningsDf(call), call.min_level, call.limit) :
           ret' = [op |-> "get_critical_cbs", raised |-> FALSE, rows |-> rows]
    /\ UNCHANGED <<config, squeeze_config, call, consecutive_days, history>>
    /\ UNCHANGED <<lifecycle, scraper>>

SqueezeScore ==
    /\ call.op = "calculate_squeeze_score"
    /\ ret = NoRet
    /\ ret' = CalculateSqueezeScore(squeeze_config, call)
    /\ UNCHANGED <<config, squeeze_config, call, consecutive_days, history>>
    /\ UNCHANGED <<lifecycle, scraper>>

BorrowScore ==
    /\ call.op = "calculate_borrow_score"
    /\ ret = NoRet
    /\ ret' = FactorReturn(call.op,
                           CalculateBorrowScore(call.borrow_change, call.historical_range))
    /\ UNCHANGED <<config, squeeze_config, call, consecutive_days, history>>
    /\ UNCHANGED <<lifecycle, scraper>>

GammaScore ==
    /\ call.op = "calculate_gamma_score"
    /\ ret = NoRet
    /\ ret' = FactorReturn(call.op, CalculateGammaScore(call.iv, call.hv))
    /\ UNCHANGED <<config, squeeze_config, call, consecutive_days, history>>
    /\ UNCHANGED <<lifecycle, scraper>>

MarginScore ==
    /\ call.op = "calculate_margin_score"
    /\ ret = NoRet
    /\ ret' = FactorReturn(call.op, CalculateMarginScore(squeeze_config, call.margin_ratio))
    /\ UNCHANGED <<config, squeeze_config, call, consecutive_days, history>>
    /\ UNCHANGED <<lifecycle, scraper>>

MomentumScore ==
    /\ call.op = "calculate_momentum_score"
    /\ ret = NoRet
    /\ ret' = FactorReturn(call.op,
                           CalculateMomentumScore(call.price, call.prev_price, call.volume,
                                                  call.avg_volume, call.resistance_level))
    /\ UNCHANGED <<config, squeeze_config, call, consecutive_days, history>>
    /\ UNCHANGED <<lifecycle, scraper>>

Next ==
    \/ Construct
    \/ CalculateWarning
    \/ CbScore
    \/ ConfigFromDict
    \/ BatchCalculate
    \/ CriticalCbs
    \/ SqueezeScore
    \/ BorrowScore
    \/ GammaScore
    \/ MarginScore
    \/ MomentumScore

Spec == Init /\ [][Next]_vars

---------------------------------------------------------------------------
(* The daily fold: the caller threads consecutive_days through successive  *)
(* calculate_warning calls, one per trading day                            *)

InitFold ==
    /\ config \in CBWarningConfigs
    /\ squeeze_config = SqueezeCalculatorInit(DefaultSqueezeConfig)
    /\ call = NoCall
    /\ ret = NoRet
    /\ consecutive_days = 0
    /\ history = <<>>
    /\ LifecycleIdle

DailyStep(obs) ==
    /\ Len(history) < MaxObs
    /\ call' = [op |-> "calculate_warning",
                current_price |-> obs.current_price,
                conversion_price |-> obs.conversion_price,
                previous_consecutive_days |-> consecutive_days,
                outstanding_balance |-> 35,
                previous_balance |-> {35}]
    /\ ret' = CalculateWarningResult(config, call')
    /\ consecutive_days' = ret'.consecutive_days
    /\ history' = Append(history, obs)
    /\ UNCHANGED <<config, squeeze_config>>
    /\ UNCHANGED <<lifecycle, scraper>>

NextFold == \E obs \in Observations : DailyStep(obs)

SpecFold == InitFold /\ [][NextFold]_vars

---------------------------------------------------------------------------
(* The same fold without a record of the days, so that it runs on for as   *)
(* long as the counter stays within MaxPrev                                *)

DailyObservation(obs) ==
    /\ call' = [op |-> "calculate_warning",
                current_price |-> obs.current_price,
                conversion_price |-> obs.conversion_price,
                previous_consecutive_days |-> consecutive_days,
                outstanding_balance |-> 35,
                previous_balance |-> {35}]
    /\ ret' = CalculateWarningResult(config, call')
    /\ ret'.consecutive_days <= MaxPrev
    /\ consecutive_days' = ret'.consecutive_days
    /\ UNCHANGED <<config, squeeze_config, history>>
    /\ UNCHANGED <<lifecycle, scraper>>

NextLevels == \E obs \in Observations : DailyObservation(obs)

SpecLevels == InitFold /\ [][NextLevels]_vars

---------------------------------------------------------------------------
(* One CBWarningCalculator shared by several bonds.  The caller keeps each *)
(* bond's counter and passes it back in: here consecutive_days[i] is the   *)
(* counter the caller holds for bond i and history[i] the observations of  *)
(* bond i so far.  The calls of the bonds come in any order.               *)

\* the bonds tracked on the shared calculator
Instruments == {1, 2}

\* most calculate_warning calls made for one bond
MaxCalls == 2

InitShared ==
    /\ config \in CBWarningConfigs
    /\ squeeze_config = SqueezeCalculatorInit(DefaultSqueezeConfig)
    /\ call = NoCall
    /\ ret = NoRet
    /\ consecutive_days = [i \in Instruments |-> 0]
    /\ history = [i \in Instruments |-> <<>>]
    /\ LifecycleIdle

\* a calculator that remembers the counter of its last result
PreviousCounterOfLastCall(i) ==
    IF ret.op = "calculate_warning" THEN ret.consecutive_days ELSE 0

\* previous_consecutive_days is an argument: the counter the caller kept for
\* this bond (lines 169, 202-204)
PreviousCounter(i) == consecutive_days[i]

\* calculate_warning for bond i: no attribute of the calculator is assigned
SharedWarning(i, obs) ==
    /\ Len(history[i]) < MaxCalls
    /\ call' = [op |-> "calculate_warning",
                current_price |-> obs.current_price,
                conversion_price |-> obs.conversion_price,
                previous_consecutive_days |-> PreviousCounter(i),
                outstanding_balance |-> 35,
                previous_balance |-> {35}]
    /\ ret' = CalculateWarningResult(config, call')
    /\ consecutive_days' = [consecutive_days EXCEPT ![i] = ret'.consecutive_days]
    /\ history' = [history EXCEPT ![i] = Append(@, obs)]
    /\ UNCHANGED <<config, squeeze_config>>
    /\ UNCHANGED <<lifecycle, scraper>>

\* calculate_cb_score for bond i: no attribute of the calculator is assigned
SharedScore(i, premium_rate) ==
    /\ call' = [op |-> "calculate_cb_score",
                premium_rate |-> premium_rate,
                remaining_ratio |-> Rat(50, 100),
                days_above_trigger |-> consecutive_days[i],
                redemption_called |-> FALSE]
    /\ ret' = [op |-> "calculate_cb_score", raised |-> FALSE,
               value |-> CalculateCbScore(call'.premium_rate, call'.remaining_ratio,
                                          call'.days_above_trigger,
                                          call'.redemption_called)]
    /\ UNCHANGED <<config, squeeze_config, consecutive_days, history>>
    /\ UNCHANGED <<lifecycle, scraper>>

NextShared ==
    \/ \E i \in Instruments, obs \in Observations : SharedWarning(i, obs)
    \/ \E i \in Instruments, premium_rate \in {Rat(-10, 2), Rat(20, 2)} :
           SharedScore(i, premium_rate)

SpecShared == InitShared /\ [][NextShared]_vars

---------------------------------------------------------------------------
(* The life of a SqueezeCalculator's configuration.  SqueezeConfig is a    *)
(* mutable dataclass and self._config holds a reference: objects[r] is the *)
(* object behind reference r.  __init__ and _normalize_weights are taken   *)
(* statement by statement, because a second thread that holds the same     *)
(* config object, or calls the constructed calculator, runs in between.    *)

\* objects[DefaultRef] is the class attribute SqueezeCalculator._DEFAULT_CONFIG
DefaultRef == 1

\* objects[PassedRef] is the config object the caller built and passes in
PassedRef == 2

\* number of config objects SqueezeConfig.from_dict builds from database rows
MaxLoaded == 2

\* what the database rows can hold: nothing (all defaults), four weights of
\* 0.5, or a valid custom set
DbConfigs == SqueezeConfigs

InitConfig ==
    /\ config = DefaultCBWarningConfig
    /\ squeeze_config = DefaultSqueezeConfig
    /\ call = NoCall
    /\ ret = NoRet
    /\ consecutive_days = 0
    /\ history = <<>>
    /\ \E c \in ConstructorConfigs : objects = <<DefaultSqueezeConfig, c>>
    /\ self_config = 0
    /\ pc = "init"
    /\ norm_total = Int2R(0)
    /\ reader = NoReader
    /\ published = {Weights(objects[r]) : r \in DOMAIN objects}
    /\ scraper = NoExecute

\* _load_config_from_db: a new object built by from_dict, or _DEFAULT_CONFIG
\* when the database cannot be read
LoadConfigFromDb ==
    \/ /\ self_config' = DefaultRef
       /\ UNCHANGED <<objects, published>>
    \/ /\ Len(objects) < PassedRef + MaxLoaded
       /\ \E c \in DbConfigs :
              /\ objects' = Append(objects, c)
              /\ published' = published \cup {Weights(c)}
       /\ self_config' = Len(objects')

\* __init__, lines 113-118: self._config is bound to the passed object, to
\* a loaded one, or to _DEFAULT_CONFIG
InitAssign ==
    /\ pc = "init"
    /\ \/ /\ self_config' = PassedRef
          /\ UNCHANGED <<objects, published>>
       \/ LoadConfigFromDb
    /\ pc' = "validate"
    /\ UNCHANGED <<config, squeeze_config, call, ret, consecutive_days, history>>
    /\ UNCHANGED scraper
    /\ UNCHANGED <<norm_total, reader>>

\* __init__, lines 121-123
InitValidate ==
    /\ pc = "validate"
    /\ pc' = IF Validate(objects[self_config]) THEN "ready" ELSE "normalize"
    /\ UNCHANGED <<config, squeeze_config, call, ret, consecutive_days, history>>
    /\ UNCHANGED scraper
    /\ UNCHANGED <<objects, self_config, norm_total, reader, published>>

\* _normalize_weights, lines 153-157
NormalizeTotal ==
    /\ pc = "normalize"
    /\ norm_total' = TotalWeight(objects[self_config])
    /\ pc' = IF RLt(Int2R(0), norm_total') THEN "weight_borrow" ELSE "ready"
    /\ UNCHANGED <<config, squeeze_config, call, ret, consecutive_days, history>>
    /\ UNCHANGED scraper
    /\ UNCHANGED <<objects, self_config, reader, published>>

\* self._config.weight_borrow /= total (line 158)
NormalizeBorrow ==
    /\ pc = "weight_borrow"
    /\ objects' = [objects EXCEPT ![self_config].weight_borrow = RDiv(@, norm_total)]
    /\ pc' = "weight_gamma"
    /\ UNCHANGED <<config, squeeze_config, call, ret, consecutive_days, history>>
    /\ UNCHANGED scraper
    /\ UNCHANGED <<self_config, norm_total, reader, published>>

\* self._config.weight_gamma /= total (line 159)
NormalizeGamma ==
    /\ pc = "weight_gamma"
    /\ objects' = [objects EXCEPT ![self_config].weight_gamma = RDiv(@, norm_total)]
    /\ pc' = "weight_margin"
    /\ UNCHANGED <<config, squeeze_config, call, ret, consecutive_days, history>>
    /\ UNCHANGED scraper
    /\ UNCHANGED <<self_config, norm_total, reader, published>>

\* self._config.weight_margin /= total (line 160)
NormalizeMargin ==
    /\ pc = "weight_margin"
    /\ objects' = [objects EXCEPT ![self_config].weight_margin = RDiv(@, norm_total)]
    /\ pc' = "weight_momentum"
    /\ UNCHANGED <<config, squeeze_config, call, ret, consecutive_days, history>>
    /\ UNCHANGED scraper
    /\ UNCHANGED <<self_config, norm_total, reader, published>>

\* self._config.weight_momentum /= total (line 161); __init__ then returns
NormalizeMomentum ==
    /\ pc = "weight_momentum"
    /\ objects' = [objects EXCEPT ![self_config].weight_momentum = RDiv(@, norm_total)]
    /\ published' = published \cup {Weights(objects'[self_config])}
    /\ pc' = "ready"
    /\ UNCHANGED <<config, squeeze_config, call, ret, consecutive_days, history>>
    /\ UNCHANGED scraper
    /\ UNCHANGED <<self_config, norm_total, reader>>

\* reload_config on the constructed calculator
ReloadConfig ==
    /\ pc = "ready"
    /\ LoadConfigFromDb
    /\ UNCHANGED <<config, squeeze_config, call, ret, consecutive_days, history>>
    /\ UNCHANGED scraper
    /\ UNCHANGED <<pc, norm_total, reader>>

\* A second thread starts to read the four weights: through the caller's
\* own reference to the passed config object, or through self._config of
\* the constructed calculator, as calculate_squeeze_score does
ReaderStart ==
    /\ reader = NoReader
    /\ \/ reader' = [via |-> "config", seen |-> <<>>]
       \/ /\ pc = "ready"
          /\ reader' = [via |-> "self._config", seen |-> <<>>]
    /\ UNCHANGED <<config, squeeze_config, call, ret, consecutive_days, history>>
    /\ UNCHANGED scraper
    /\ UNCHANGED <<objects, self_config, pc, norm_total, published>>

\* the reader's next attribute read: config.weight_x, or
\* self._config.weight_x (lines 327-330 dereference self._config each time)
ReaderRead ==
    /\ reader # NoReader
    /\ Len(reader.seen) < 4
    /\ LET ref == IF reader.via = "config" THEN PassedRef ELSE self_config
       IN  reader' = [reader EXCEPT
                         !.seen = Append(@, Weights(objects[ref])[Len(@) + 1])]
    /\ UNCHANGED <<config, squeeze_config, call, ret, consecutive_days, history>>
    /\ UNCHANGED scraper
    /\ UNCHANGED <<objects, self_config, pc, norm_total, published>>

NextConfig ==
    \/ InitAssign
    \/ InitValidate
    \/ NormalizeTotal
    \/ NormalizeBorrow
    \/ NormalizeGamma
    \/ NormalizeMargin
    \/ NormalizeMomentum
    \/ ReloadConfig
    \/ ReaderStart
    \/ ReaderRead

SpecConfig == InitConfig /\ [][NextConfig]_vars

---------------------------------------------------------------------------
(* BaseScraper.execute, statement by statement.  scraper holds the locals  *)
(* of the call (attempt, page, last_error), the pages that are open, the   *)
(* delays slept, and a log of what each attempt did.  A failure of         *)
(* _new_page or of scrape is an Exception the environment chooses;         *)
(* page.close() and asyncio.sleep() complete.                              *)

\* largest ScraperConfig.max_retries
MaxRetries == 3

\* ScraperConfig.retry_delay, in seconds
RetryDelays == {2, 5}

\* str(e) of the exception raised in an attempt: one text per attempt and
\* per place it was raised
ErrorText(attempt, where) == [attempt |-> attempt, where |-> where]

InitScraper ==
    /\ config = DefaultCBWarningConfig
    /\ squeeze_config = DefaultSqueezeConfig
    /\ call = NoCall
    /\ ret = NoRet
    /\ consecutive_days = 0
    /\ history = <<>>
    /\ objects = <<>>
    /\ self_config = 0
    /\ pc = "idle"
    /\ norm_total = Int2R(0)
    /\ reader = NoReader
    /\ published = {}
    /\ \E max_retries \in 0 .. MaxRetries, retry_delay \in RetryDelays :
           scraper = [pc          |-> "for",
                      max_retries |-> max_retries,
                      retry_delay |-> retry_delay,
                      attempt     |-> 0,
                      page        |-> {},
                      last_error  |-> {},
                      returning   |-> {},
                      open_pages  |-> {},
                      slept       |-> <<>>,
                      log         |-> <<>>,
                      result      |-> {}]

\* a sleep after every failed attempt, the last one too
SleepsAfterAlways(attempt, max_retries) == TRUE

\* `if attempt < self.config.max_retries` (line 186)
SleepsAfter(attempt, max_retries) == attempt < max_retries

\* for attempt in range(1, max_retries + 1): page = None (lines 167-168),
\* or the loop is over
ForAttempt ==
    /\ scraper.pc = "for"
    /\ IF scraper.attempt < scraper.max_retries
       THEN scraper' = [scraper EXCEPT !.pc = "new_page",
                                       !.attempt = @ + 1,
                                       !.page = {}]
       ELSE scraper' = [scraper EXCEPT !.pc = "failed"]
    /\ UNCHANGED <<config, squeeze_config, call, ret, consecutive_days, history>>
    /\ UNCHANGED lifecycle

\* page = await self._new_page() (line 170): a page opens, or _new_page
\* raises (no browser, or new_page failed)
NewPage ==
    /\ scraper.pc = "new_page"
    /\ \/ scraper' = [scraper EXCEPT !.pc = "scrape",
                                     !.page = {scraper.attempt},
                                     !.open_pages = @ \cup {scraper.attempt},
                                     !.log = Append(@, [attempt |-> scraper.attempt,
                                                        did |-> "opened"])]
       \/ scraper' = [scraper EXCEPT !.pc = "except",
                                     !.last_error =
                                         {ErrorText(scraper.attempt, "_new_page")},
                                     !.log = Append(@, [attempt |-> scraper.attempt,
                                                        did |-> "failed"])]
    /\ UNCHANGED <<config, squeeze_config, call, ret, consecutive_days, history>>
    /\ UNCHANGED lifecycle

\* data = await self.scrape(page, **kwargs) (line 171): data comes back and
\* the return of lines 173-178 is pending while finally runs, or scrape
\* raises
Scrape ==
    /\ scraper.pc = "scrape"
    /\ \/ scraper' = [scraper EXCEPT !.pc = "finally",
                                     !.returning = {[success |-> TRUE,
                                                     data    |-> {scraper.attempt},
                                                     error   |-> {}]},
                                     !.log = Append(@, [attempt |-> scraper.attempt,
                                                        did |-> "scraped"])]
       \/ scraper' = [scraper EXCEPT !.pc = "except",
                                     !.last_error =
                                         {ErrorText(scraper.attempt, "scrape")},
                                     !.log = Append(@, [attempt |-> scraper.attempt,
                                                        did |-> "failed"])]
    /\ UNCHANGED <<config, squeeze_config, call, ret, consecutive_days, history>>
    /\ UNCHANGED lifecycle

\* except Exception (lines 180-189): last_error is set where the exception
\* was raised; sleep retry_delay * attempt unless this was the last attempt
Except ==
    /\ scraper.pc = "except"
    /\ IF SleepsAfter(scraper.attempt, scraper.max_retries)
       THEN scraper' = [scraper EXCEPT
                           !.pc = "finally",
                           !.slept = Append(@, [delay |-> scraper.retry_delay
                                                            * scraper.attempt,
                                                after |-> scraper.attempt]),
                           !.log = Append(@, [attempt |-> scraper.attempt,
                                              did |-> "slept"])]
       ELSE scraper' = [scraper EXCEPT !.pc = "finally"]
    /\ UNCHANGED <<config, squeeze_config, call, ret, consecutive_days, history>>
    /\ UNCHANGED lifecycle

\* finally: if page: await page.close() (lines 191-193); then the pending
\* return is made or the loop goes on
Finally ==
    /\ scraper.pc = "finally"
    /\ scraper' = [scraper EXCEPT
                       !.pc = IF scraper.returning # {} THEN "returned" ELSE "for",
                       !.open_pages = @ \ scraper.page,
                       !.log = IF scraper.page # {}
                               THEN Append(@, [attempt |-> scraper.attempt,
                                               did |-> "closed"])
                               ELSE @,
                       !.result = scraper.returning]
    /\ UNCHANGED <<config, squeeze_config, call, ret, consecutive_days, history>>
    /\ UNCHANGED lifecycle

\* all retries failed (lines 195-203)
ReturnFailure ==
    /\ scraper.pc = "failed"
    /\ scraper' = [scraper EXCEPT !.pc = "returned",
                                  !.result = {[success |-> FALSE,
                                               data    |-> {},
                                               error   |-> scraper.last_error]}]
    /\ UNCHANGED <<config, squeeze_config, call, ret, consecutive_days, history>>
    /\ UNCHANGED lifecycle

NextScraper ==
    \/ ForAttempt
    \/ NewPage
    \/ Scrape
    \/ Except
    \/ Finally
    \/ ReturnFailure

SpecScraper == InitScraper /\ [][NextScraper]_vars

---------------------------------------------------------------------------
(* Properties *)

WarningReturned == ret.op = "calculate_warning" /\ ~ ret.raised

\* C1: every calculate_warning call returns consecutive_days = previous + 1
\* when the day is above trigger, 0 when it is not and reset_on_below is
\* true, and the previous value unchanged when it is not and reset_on_below
\* is false.
C1_ConsecutiveDaysStep ==
    WarningReturned =>
        /\ ret.is_above_trigger =>
               ret.consecutive_days = call.previous_consecutive_days + 1
        /\ (~ ret.is_above_trigger /\ config.reset_on_below) =>
               ret.consecutive_days = 0
        /\ (~ ret.is_above_trigger /\ ~ config.reset_on_below) =>
               ret.consecutive_days = call.previous_consecutive_days

\* a day below trigger with reset_on_below = False holds a counter of 15
C1_Witness ==
    /\ WarningReturned
    /\ ~ config.reset_on_below
    /\ ~ ret.is_above_trigger
    /\ call.previous_consecutive_days = 15
    /\ ret.consecutive_days = 15

\* the number of most recent consecutive observations at or above the
\* trigger price
RECURSIVE TrailingRun(_, _)
TrailingRun(h, threshold_pct) ==
    IF h = <<>> THEN 0
    ELSE LET o == h[Len(h)]
         IN  IF o.current_price * 100 >= o.conversion_price * threshold_pct
             THEN 1 + TrailingRun(SubSeq(h, 1, Len(h) - 1), threshold_pct)
             ELSE 0

\* C2: threading the counter from 0 through successive calls with
\* reset_on_below = true, the counter after any sequence of observations is
\* the length of the trailing run of observations at or above the trigger
\* price.
C2_CounterIsTrailingRun ==
    config.reset_on_below =>
        consecutive_days = TrailingRun(history, config.trigger_threshold_pct)

\* above, below, then three days above: the counter is 3, not 4
C2_Witness ==
    /\ config.reset_on_below
    /\ Len(history) = 5
    /\ history[1].current_price = 14
    /\ history[2].current_price = 12
    /\ consecutive_days = 3

\* C3: the warning level is a function of the new consecutive_days only:
\* CRITICAL iff it is >= trigger_days_required, otherwise WARNING iff it is
\* >= trigger_days_required * warning fraction, otherwise CAUTION iff it is
\* >= trigger_days_required * caution fraction, otherwise SAFE, the products
\* unrounded; with the defaults 0..9 are SAFE, 10..19 CAUTION, 20..29
\* WARNING, 30 and more CRITICAL.
C3_WarningLevelOfCounter ==
    WarningReturned =>
        LET d   == ret.consecutive_days
            req == config.trigger_days_required
        IN  /\ ret.warning_level =
                   IF d >= req THEN "CRITICAL"
                   ELSE IF 100 * d >= req * config.warning_threshold_pct THEN "WARNING"
                   ELSE IF 100 * d >= req * config.caution_threshold_pct THEN "CAUTION"
                   ELSE "SAFE"
            /\ (req = 30 /\ config.caution_threshold_pct = 33
                         /\ config.warning_threshold_pct = 66) =>
                   /\ ret.warning_level =
                          IF d <= 9 THEN "SAFE"
                          ELSE IF d <= 19 THEN "CAUTION"
                          ELSE IF d <= 29 THEN "WARNING"
                          ELSE "CRITICAL"
                   /\ (call.previous_consecutive_days = 14 /\ ret.is_above_trigger) =>
                          ret.warning_level = "CAUTION"
                   /\ (call.previous_consecutive_days = 29 /\ ret.is_above_trigger) =>
                          ret.warning_level = "CRITICAL"

\* day 10 under the defaults is the first CAUTION day
C3_Witness ==
    /\ WarningReturned
    /\ config = DefaultCBWarningConfig
    /\ call.previous_consecutive_days = 9
    /\ ret.consecutive_days = 10
    /\ ret.warning_level = "CAUTION"

\* C4: is_above_trigger is true exactly when current_price >=
\* conversion_price * trigger_threshold_pct / 100; a price equal to the
\* trigger price counts as above and increments the counter.
C4_AboveTriggerIffAtOrAbove ==
    WarningReturned =>
        LET at_or_above == call.current_price * 100 >=
                               call.conversion_price * config.trigger_threshold_pct
            equal == call.current_price * 100 =
                         call.conversion_price * config.trigger_threshold_pct
        IN  /\ ret.is_above_trigger <=> at_or_above
            /\ equal => ret.consecutive_days = call.previous_consecutive_days + 1

\* 13 = 10 * 130 / 100: the close is exactly the trigger price
C4_Witness ==
    /\ WarningReturned
    /\ call.current_price = 13
    /\ call.conversion_price = 10
    /\ config.trigger_threshold_pct = 130
    /\ ret.is_above_trigger
    /\ ret.consecutive_days = call.previous_consecutive_days + 1

\* C5 as stated: the trigger_progress of the result is exactly
\* min(100, consecutive_days / trigger_days_required * 100), and
\* days_remaining is max(0, trigger_days_required - consecutive_days).
C5_ProgressExact ==
    WarningReturned =>
        LET d   == ret.consecutive_days
            req == config.trigger_days_required
        IN  /\ Hundredths(ret.trigger_progress) =
                   IF d >= req THEN Int2R(100) ELSE Rat(d * 100, req)
            /\ ret.days_remaining = IF req - d >= 0 THEN req - d ELSE 0

\* C5 (amended): for previous_consecutive_days >= 0 the trigger_progress of
\* the result is min(100, consecutive_days / trigger_days_required * 100)
\* rounded to two decimals (within 0.005 of it), days_remaining is
\* max(0, trigger_days_required - consecutive_days); so 0 <= trigger_progress
\* <= 100, days_remaining >= 0, days_remaining = 0 exactly when the level is
\* CRITICAL, and the progress is 100 for every counter >= trigger_days_required.
C5_ProgressRounded ==
    (WarningReturned /\ call.previous_consecutive_days >= 0) =>
        LET d   == ret.consecutive_days
            req == config.trigger_days_required
            h   == ret.trigger_progress
        IN  /\ IF d >= req THEN h = 100 * 100
               ELSE 2 * Abs(h * req - d * 100 * 100) <= req
            /\ ret.days_remaining = IF req - d >= 0 THEN req - d ELSE 0
            /\ 0 <= h /\ h <= 100 * 100
            /\ ret.days_remaining >= 0
            /\ ret.days_remaining = 0 <=> ret.warning_level = "CRITICAL"

\* one day of thirty: 3.33, where the unrounded progress is 3.333...
C5_Witness ==
    /\ WarningReturned
    /\ config.trigger_days_required = 30
    /\ ret.consecutive_days = 1
    /\ ret.trigger_progress = 333
    /\ ret.days_remaining = 29

CbScoreReturned == ret.op = "calculate_cb_score" /\ ~ ret.raised

\* C6: calculate_cb_score returns 100 whenever redemption_called is true,
\* whatever premium_rate, remaining_ratio and days_above_trigger are.
C6_RedemptionOverrides ==
    (CbScoreReturned /\ call.redemption_called) => ret.value = Int2R(100)

\* redemption called on inputs that would otherwise score 5
C6_Witness ==
    /\ CbScoreReturned
    /\ call.redemption_called
    /\ call.premium_rate = Int2R(50)
    /\ call.remaining_ratio = Int2R(0)
    /\ call.days_above_trigger = 0
    /\ ret.value = Int2R(100)

\* C7: with redemption_called false the score is min(100, premium part +
\* remaining balance part + days above part), the premium part within 0..40,
\* the remaining balance part within 0..30 and the days above part within
\* 0..30, so the score is within 0..100 for every input.
C7_CbScoreComponents ==
    (CbScoreReturned /\ ~ call.redemption_called) =>
        LET p == PremiumComponent(call.premium_rate)
            r == RemainingComponent(call.remaining_ratio)
            d == DaysComponent(call.days_above_trigger)
            sum == RAdd(RAdd(p, Int2R(r)), Int2R(d))
        IN  /\ RLe(Int2R(0), p) /\ RLe(p, Int2R(40))
            /\ 0 <= r /\ r <= 30
            /\ 0 <= d /\ d <= 30
            /\ ret.value = IF RLe(sum, Int2R(100)) THEN sum ELSE Int2R(100)
            /\ RLe(Int2R(0), ret.value) /\ RLe(ret.value, Int2R(100))

\* a deep discount, large remaining balance and 30 days: 40 + 30 + 30
C7_Witness ==
    /\ CbScoreReturned
    /\ ~ call.redemption_called
    /\ call.premium_rate = Int2R(-30)
    /\ call.remaining_ratio = Int2R(1)
    /\ call.days_above_trigger = 30
    /\ ret.value = Int2R(100)

NonNegativeWeightsSummingToOne(cfg) ==
    /\ cfg.weight_borrow.n >= 0
    /\ cfg.weight_gamma.n >= 0
    /\ cfg.weight_margin.n >= 0
    /\ cfg.weight_momentum.n >= 0
    /\ TotalWeight(cfg) = Int2R(1)

\* C8: for every input of calculate_squeeze_score, borrow_range included,
\* under non-negative weights that sum to 1, the returned score is within
\* 0..100.
C8_SqueezeScoreInRange ==
    (ret.op = "calculate_squeeze_score" /\ ~ ret.raised
        /\ NonNegativeWeightsSummingToOne(squeeze_config)) =>
        (0 <= ret.score /\ ret.score <= 100)

SqueezeOps ==
    {"calculate_squeeze_score", "calculate_borrow_score", "calculate_gamma_score",
     "calculate_margin_score", "calculate_momentum_score"}

\* C9: calculate_squeeze_score and the four factor functions never raise,
\* whatever finite numbers they are given: every division is guarded.
C9_NeverRaises ==
    ret.op \in SqueezeOps => ~ ret.raised

\* the nearest number of hundredths to x (a value computed without an error)
IsRounded2(h, x) == 2 * Abs(h * x.d - 100 * x.n) <= x.d

SentinelsReturned ==
    /\ (WarningReturned /\ call.conversion_price <= 0) => ret.price_ratio = 0
    /\ (WarningReturned /\ \A v \in call.previous_balance : v <= 0) =>
           ret.balance_change_pct = 0
    /\ (ret.op = "calculate_gamma_score" /\ (call.iv <= 0 \/ call.hv <= 0)) =>
           (~ ret.raised /\ ret.value = Int2R(50))
    /\ (ret.op = "calculate_momentum_score"
            /\ (call.prev_price <= 0 \/ call.avg_volume <= 0)) =>
           (~ ret.raised /\ ret.value = Int2R(50))
    /\ (ret.op = "calculate_margin_score" /\ call.margin_ratio <= 0) =>
           (~ ret.raised /\ ret.value = Int2R(0))
    /\ ret.op = "calculate_warning" => ~ ret.raised

\* C10 as stated: the sentinels, and otherwise balance_change_pct is exactly
\* (balance - previous_balance) / previous_balance * 100.
C10_SentinelsExactChange ==
    /\ SentinelsReturned
    /\ WarningReturned =>
           \A v \in call.previous_balance :
               v > 0 => Hundredths(ret.balance_change_pct) =
                            Rat((call.outstanding_balance - v) * 100, v)

\* C10 (amended): conversion_price <= 0 gives price_ratio 0; previous_balance
\* missing or <= 0 gives balance_change_pct 0, and otherwise
\* balance_change_pct is (balance - previous_balance) / previous_balance * 100
\* rounded to two decimals; iv <= 0 or hv <= 0 gives gamma score 50;
\* prev_price <= 0 or avg_volume <= 0 gives momentum score 50; margin_ratio
\* <= 0 gives margin score 0; none of these calls fails.
C10_SentinelsRoundedChange ==
    /\ SentinelsReturned
    /\ WarningReturned =>
           \A v \in call.previous_balance :
               v > 0 => IsRounded2(ret.balance_change_pct,
                                   Rat((call.outstanding_balance - v) * 100, v))

\* conversion price 0 and previous balance 0.0: both divisions are skipped
C10_Witness ==
    /\ WarningReturned
    /\ call.conversion_price = 0
    /\ call.previous_balance = {0}
    /\ call.current_price = 13
    /\ call.outstanding_balance = 35
    /\ ret.price_ratio = 0
    /\ ret.balance_change_pct = 0

\* C11 as stated: for conversion_price > 0 the price_ratio of the result is
\* exactly current_price / conversion_price * 100, and for conversion_price
\* <= 0 it is 0.
C11_PriceRatioExact ==
    WarningReturned =>
        Hundredths(ret.price_ratio) =
            IF call.conversion_price > 0
            THEN Rat(call.current_price * 100, call.conversion_price)
            ELSE Int2R(0)

\* C11 (amended): for conversion_price > 0 the price_ratio of the result is
\* current_price / conversion_price * 100 rounded to two decimals (within
\* 0.005 of it), and for conversion_price <= 0 it is 0.
C11_PriceRatioRounded ==
    WarningReturned =>
        IF call.conversion_price > 0
        THEN IsRounded2(ret.price_ratio,
                        Rat(call.current_price * 100, call.conversion_price))
        ELSE ret.price_ratio = 0

\* 13 over 7: 185.71, where the unrounded ratio is 185.714...
C11_Witness ==
    /\ WarningReturned
    /\ call.current_price = 13
    /\ call.conversion_price = 7
    /\ ret.price_ratio = 18571

\* C12: constructing a SqueezeCalculator divides each weight by the weights'
\* sum exactly when the sum deviates from 1.0 by more than 0.001 and is
\* positive, so (0.5, 0.5, 0.5, 0.5) becomes (0.25, 0.25, 0.25, 0.25); with a
\* sum <= 0, and with a sum within 0.001 of 1.0, the weights are the ones
\* passed in.  Thresholds and tiers are never changed.
C12_NormalizedIffInvalid ==
    ret.op = "__init__" =>
        LET passed   == call.config
            total    == TotalWeight(passed)
            deviates == \/ RLt(Rat(1001, 1000), total)
                        \/ RLt(total, Rat(999, 1000))
            half     == Rat(1, 2)
        IN  /\ ~ ret.raised
            /\ (deviates /\ total.n > 0) =>
                   \A i \in 1 .. 4 :
                       RMul(Weights(squeeze_config)[i], total) = Weights(passed)[i]
            /\ (deviates /\ total.n <= 0) => squeeze_config = passed
            /\ ~ deviates => squeeze_config = passed
            /\ Weights(passed) = <<half, half, half, half>> =>
                   Weights(squeeze_config) =
                       <<Rat(1, 4), Rat(1, 4), Rat(1, 4), Rat(1, 4)>>
            /\ [squeeze_config EXCEPT !.weight_borrow = Int2R(0),
                                      !.weight_gamma = Int2R(0),
                                      !.weight_margin = Int2R(0),
                                      !.weight_momentum = Int2R(0)]
                   = [passed EXCEPT !.weight_borrow = Int2R(0),
                                    !.weight_gamma = Int2R(0),
                                    !.weight_margin = Int2R(0),
                                    !.weight_momentum = Int2R(0)]

\* four weights of 0.5 are passed in and the calculator holds four of 0.25
C12_Witness ==
    /\ ret.op = "__init__"
    /\ Weights(call.config) = <<Rat(1, 2), Rat(1, 2), Rat(1, 2), Rat(1, 2)>>
    /\ Weights(squeeze_config) = <<Rat(1, 4), Rat(1, 4), Rat(1, 4), Rat(1, 4)>>

\* the config the calculator scores with
ActiveConfig == objects[self_config]

\* C13: after construction and after any sequence of reload_config calls,
\* the active config's four weights sum to 1.0 within 0.001 whenever their
\* sum is positive: an invalid loaded weight set is renormalized before it
\* is used.
C13_ActiveWeightsValid ==
    (pc = "ready" /\ RLt(Int2R(0), TotalWeight(ActiveConfig))) =>
        Validate(ActiveConfig)

\* C14: a reader that has read the four weights holds one complete weight
\* set that a config object had when it was published, never a mix of the
\* set before and the set after a normalization or a reload.
C14_ReaderSeesCompleteSet ==
    Len(reader.seen) = 4 => reader.seen \in published

SignalReturned == ret.op = "calculate_squeeze_score" /\ ~ ret.raised

\* C16: under a config with bullish_threshold > bearish_threshold the trend
\* of a signal is BULLISH iff score >= bullish_threshold, BEARISH iff score
\* <= bearish_threshold and NEUTRAL iff the score is strictly between the
\* two, so exactly one trend applies; the thresholds are the config's own,
\* not the defaults 70 and 40.
C16_TrendByThresholds ==
    (SignalReturned
        /\ squeeze_config.bullish_threshold > squeeze_config.bearish_threshold) =>
        LET bullish == squeeze_config.bullish_threshold
            bearish == squeeze_config.bearish_threshold
        IN  /\ ret.trend \in {"BULLISH", "BEARISH", "NEUTRAL"}
            /\ ret.trend = "BULLISH" <=> ret.score >= bullish
            /\ ret.trend = "BEARISH" <=> ret.score <= bearish
            /\ ret.trend = "NEUTRAL" <=> (bearish < ret.score /\ ret.score < bullish)

\* thresholds 60 and 30: a score between 60 and 69 is BULLISH, where the
\* defaults would give NEUTRAL
C16_Witness ==
    /\ SignalReturned
    /\ squeeze_config.bullish_threshold = 60
    /\ squeeze_config.bearish_threshold = 30
    /\ ret.score >= 60
    /\ ret.score < 70
    /\ ret.trend = "BULLISH"

\* the weighted sum of four factor scores under the weights of cfg
WeightedSum(cfg, borrow, gamma, margin, momentum) ==
    RAdd(RAdd(RMul(cfg.weight_borrow, borrow), RMul(cfg.weight_gamma, gamma)),
         RAdd(RMul(cfg.weight_margin, margin), RMul(cfg.weight_momentum, momentum)))

\* C17 as stated: the score of every signal is round() of the weighted sum,
\* under the active config's weights, of the four factor scores reported in
\* the signal's factors field.
C17_ScoreOfReportedFactors ==
    SignalReturned =>
        ret.score = Round0(WeightedSum(squeeze_config,
                                       Hundredths(ret.factors.borrow_score),
                                       Hundredths(ret.factors.gamma_score),
                                       Hundredths(ret.factors.margin_score),
                                       Hundredths(ret.factors.momentum_score)))

FactorOps == SqueezeOps \ {"calculate_squeeze_score"}

\* C18: each of the four factor functions returns a value within 0..100 for
\* every input, every historical_range of calculate_borrow_score included.
C18_FactorScoresInRange ==
    (ret.op \in FactorOps /\ ~ ret.raised) =>
        (RLe(Int2R(0), ret.value) /\ RLe(ret.value, Int2R(100)))

MarginRatios == {c.margin_ratio : c \in MarginScoreCalls}

\* the line through (x0, y0) and (x1, y1), at x
Interpolate(x0, y0, x1, y1, x) ==
    RAdd(Int2R(y0), RMul(Rat(x - x0, x1 - x0), Int2R(y1 - y0)))

\* the margin score returned for a ratio >= 0 is 0 at ratio 0, 40 at tier1,
\* 70 at tier2, on the straight line between these inside each tier, 100
\* from tier3 on, and no larger than the score of any larger ratio
MarginScoreShape ==
    LET r     == call.margin_ratio
        tier1 == squeeze_config.margin_tier1_max
        tier2 == squeeze_config.margin_tier2_max
        tier3 == squeeze_config.margin_tier3_max
    IN  /\ ~ ret.raised
        /\ r = 0 => ret.value = Int2R(0)
        /\ r = tier1 => ret.value = Int2R(40)
        /\ r = tier2 => ret.value = Int2R(70)
        /\ r >= tier3 => ret.value = Int2R(100)
        /\ (0 < r /\ r < tier1) => ret.value = Interpolate(0, 0, tier1, 40, r)
        /\ (tier1 < r /\ r < tier2) => ret.value = Interpolate(tier1, 40, tier2, 70, r)
        /\ (tier2 < r /\ r < tier3) => ret.value = Interpolate(tier2, 70, tier3, 100, r)
        /\ \A r2 \in MarginRatios :
               r2 >= r => RLe(ret.value, CalculateMarginScore(squeeze_config, r2))

\* C19 as stated: the shape holds under any tier boundaries with
\* tier1 < tier2 < tier3.
C19_MarginShapeAscendingTiers ==
    (ret.op = "calculate_margin_score" /\ call.margin_ratio >= 0
        /\ squeeze_config.margin_tier1_max < squeeze_config.margin_tier2_max
        /\ squeeze_config.margin_tier2_max < squeeze_config.margin_tier3_max) =>
        MarginScoreShape

\* C19 (amended): the shape holds under tier boundaries with
\* 0 < tier1 < tier2 < tier3.
C19_MarginShapePositiveTiers ==
    (ret.op = "calculate_margin_score" /\ call.margin_ratio >= 0
        /\ 0 < squeeze_config.margin_tier1_max
        /\ squeeze_config.margin_tier1_max < squeeze_config.margin_tier2_max
        /\ squeeze_config.margin_tier2_max < squeeze_config.margin_tier3_max) =>
        MarginScoreShape

\* ratio 7 under tiers 5, 10, 20: two fifths of the way from 40 to 70
C19_Witness ==
    /\ ret.op = "calculate_margin_score"
    /\ squeeze_config.margin_tier1_max = 5
    /\ squeeze_config.margin_tier2_max = 10
    /\ call.margin_ratio = 7
    /\ ret.value = Int2R(52)

BorrowChangesCalled == {c.borrow_change : c \in BorrowScoreCalls}

\* C20: with a range min < 0 < max, a negative borrow_change scores
\* min(100, 50 + |change| / |min| * 50), which is more than 50, and a
\* non-negative one scores max(0, 30 - change / max * 30), which is at most
\* 30; so every negative change scores strictly higher than every
\* non-negative one and the score is non-increasing in borrow_change.
C20_ShortCoveringDominates ==
    (ret.op = "calculate_borrow_score"
        /\ call.historical_range[1] < 0 /\ 0 < call.historical_range[2]) =>
        LET change  == call.borrow_change
            min_val == call.historical_range[1]
            max_val == call.historical_range[2]
            covering == RAdd(Int2R(50), Rat(Abs(change) * 50, Abs(min_val)))
            adding   == RSub(Int2R(30), Rat(change * 30, max_val))
        IN  /\ ~ ret.raised
            /\ change < 0 =>
                   /\ ret.value = IF RLe(Int2R(100), covering) THEN Int2R(100)
                                  ELSE covering
                   /\ RLt(Int2R(50), ret.value)
            /\ change >= 0 =>
                   /\ ret.value = IF RLe(adding, Int2R(0)) THEN Int2R(0) ELSE adding
                   /\ RLe(ret.value, Int2R(30))
            /\ \A other \in BorrowChangesCalled :
                   LET score == CalculateBorrowScore(other, call.historical_range)
                   IN  /\ other >= change => RLe(score, ret.value)
                       /\ (change < 0 /\ other >= 0) => RLt(score, ret.value)

\* covering half of the record: 75, above every score of a non-negative change
C20_Witness ==
    /\ ret.op = "calculate_borrow_score"
    /\ call.historical_range = <<-2, 2>>
    /\ call.borrow_change = -1
    /\ ~ ret.raised
    /\ ret.value = Int2R(75)

ImpliedVolatilities == {c.iv : c \in GammaScoreCalls}

\* C21: for iv > 0 and hv > 0 the gamma score is min(100, 50 + d * 100) when
\* d = (hv - iv) / hv is positive and max(0, 50 + d * 50) otherwise; iv = hv
\* gives exactly 50, the score is non-increasing in iv for fixed hv,
\* gamma_score(0.20, 0.30) >= 70 and gamma_score(0.40, 0.25) <= 40.
C21_GammaScoreFormula ==
    (ret.op = "calculate_gamma_score" /\ call.iv > 0 /\ call.hv > 0) =>
        LET iv == call.iv
            hv == call.hv
            undervalued == Rat(50 * hv + (hv - iv) * 100, hv)
            overvalued  == Rat(50 * hv + (hv - iv) * 50, hv)
        IN  /\ ~ ret.raised
            /\ hv > iv =>
                   ret.value = IF RLe(Int2R(100), undervalued) THEN Int2R(100)
                               ELSE undervalued
            /\ hv <= iv =>
                   ret.value = IF RLe(overvalued, Int2R(0)) THEN Int2R(0)
                               ELSE overvalued
            /\ iv = hv => ret.value = Int2R(50)
            /\ \A other \in ImpliedVolatilities :
                   (other > 0 /\ other >= iv) =>
                       RLe(CalculateGammaScore(other, hv), ret.value)
            /\ (iv = 20 /\ hv = 30) => RLe(Int2R(70), ret.value)
            /\ (iv = 40 /\ hv = 25) => RLe(ret.value, Int2R(40))

\* iv 0.20 under hv 0.30: a third of divergence, 83.33...
C21_Witness ==
    /\ ret.op = "calculate_gamma_score"
    /\ call.iv = 20
    /\ call.hv = 30
    /\ ~ ret.raised
    /\ ret.value = Rat(250, 3)

\* x limited to lo .. hi
Clamp(x, lo, hi) ==
    IF RLe(x, Int2R(lo)) THEN Int2R(lo)
    ELSE IF RLe(Int2R(hi), x) THEN Int2R(hi)
    ELSE x

\* C22: for prev_price > 0 and avg_volume > 0 the momentum score is the
\* clamp to 0..100 of 50 + clamp((price - prev_price) / prev_price * 500,
\* -25, 25), plus the volume bonus (25 if volume / avg_volume > 2.0, 15 if
\* > 1.5, 5 if > 1.0, else -10), plus 10 whenever a resistance level is
\* given and price is above it.
C22_MomentumFormula ==
    (ret.op = "calculate_momentum_score" /\ call.prev_price > 0
        /\ call.avg_volume > 0) =>
        LET base == RAdd(Int2R(50),
                         Clamp(Rat((call.price - call.prev_price) * 500,
                                   call.prev_price), -25, 25))
            volume_bonus ==
                IF call.volume > 2 * call.avg_volume THEN 25
                ELSE IF 2 * call.volume > 3 * call.avg_volume THEN 15
                ELSE IF call.volume > call.avg_volume THEN 5
                ELSE -10
            breakout_bonus ==
                IF \E r \in call.resistance_level : call.price > r THEN 10 ELSE 0
        IN  /\ ~ ret.raised
            /\ ret.value =
                   Clamp(RAdd(base, Int2R(volume_bonus + breakout_bonus)), 0, 100)

\* the rows of the frame passed in that are at or above min_level
Qualifying ==
    {i \in 1 .. Len(call.consecutive_days) :
        LevelOrder(WarningsDf(call)[i].warning_level) >= LevelOrder(call.min_level)}

\* C23: get_critical_cbs returns rows of the frame whose level is at or
\* above min_level in SAFE < CAUTION < WARNING < CRITICAL, each at most once,
\* in descending order of consecutive_days, as many as qualify but at most
\* limit, and no qualifying row left out has more consecutive_days than a
\* returned row.
C23_CriticalCbsFilteredRanked ==
    ret.op = "get_critical_cbs" =>
        LET rows     == ret.rows
            returned == {rows[k].cb_ticker : k \in 1 .. Len(rows)}
        IN  /\ \A k \in 1 .. Len(rows) :
                   /\ rows[k].cb_ticker \in Qualifying
                   /\ rows[k] = WarningsDf(call)[rows[k].cb_ticker]
            /\ Cardinality(returned) = Len(rows)
            /\ \A k \in 1 .. (Len(rows) - 1) :
                   rows[k].consecutive_days >= rows[k + 1].consecutive_days
            /\ Len(rows) = IF call.limit < Cardinality(Qualifying)
                           THEN call.limit ELSE Cardinality(Qualifying)
            /\ \A i \in Qualifying \ returned : \A k \in 1 .. Len(rows) :
                   call.consecutive_days[i] <= rows[k].consecutive_days

\* of bonds at 5, 35 and 30 days, the two CRITICAL ones qualify and only
\* the one at 35 days fits in a limit of 1
C23_Witness ==
    /\ ret.op = "get_critical_cbs"
    /\ call.consecutive_days = <<5, 35, 30>>
    /\ call.min_level = "CRITICAL"
    /\ call.limit = 1
    /\ Len(ret.rows) = 1
    /\ ret.rows[1].cb_ticker = 2

\* the bonds of a batch call whose underlying closed above 0 on the date
\* asked for and whose conversion price is above 0
Priced ==
    {i \in 1 .. Len(call.cbs) :
        /\ call.cbs[i].underlying_ticker \in DOMAIN call.closes
        /\ \E p \in {13, 9} : call.closes[call.cbs[i].underlying_ticker] = {p}
        /\ call.cbs[i].current_conversion_price = {10}}

\* C24: batch_calculate_cb_warnings does not fail; its results are, in
\* order, one for each bond with a positive close on trade_date and a
\* positive conversion price, and none for any other bond (an empty result
\* when no bond is priced); a bond without a tracking row is computed from
\* counter 0 and no previous balance, a tracked bond from its tracking row.
C24_BatchOnePerPricedCb ==
    ret.op = "batch_calculate_cb_warnings" =>
        /\ ~ ret.raised
        /\ Len(ret.rows) = Cardinality(Priced)
        /\ \A i \in Priced : \E k \in 1 .. Len(ret.rows) : ret.rows[k].cb_ticker = i
        /\ \A k \in 1 .. Len(ret.rows) :
               LET i == ret.rows[k].cb_ticker
                   has_row == \E bonds \in call.tracked : i \in bonds
               IN  /\ i \in Priced
                   /\ ret.rows[k].result =
                          CalculateWarningResult(config,
                              [current_price |-> OrZero(call.closes[call.cbs[i].underlying_ticker]),
                               conversion_price |-> 10,
                               previous_consecutive_days |-> IF has_row THEN 29 ELSE 0,
                               outstanding_balance |-> 30,
                               previous_balance |-> IF has_row THEN {35} ELSE {}])

\* two bonds on one stock that closed at 13, the second with a non-positive
\* conversion price, the first not tracked: one result, counted from 0
C24_Witness ==
    /\ ret.op = "batch_calculate_cb_warnings"
    /\ Len(call.cbs) = 2
    /\ call.cbs[1] = [underlying_ticker |-> 1, current_conversion_price |-> {10}]
    /\ call.cbs[2] = [underlying_ticker |-> 1, current_conversion_price |-> {0}]
    /\ 1 \in DOMAIN call.closes
    /\ call.closes[1] = {13}
    /\ call.tracked = {{2}}
    /\ ~ ret.raised
    /\ Len(ret.rows) = 1
    /\ ret.rows[1].cb_ticker = 1
    /\ ret.rows[1].result.consecutive_days = 1

\* longest run of days looked ahead for a change of level
MaxHorizon == 10

\* the counters the fold can hold after at most k more daily observations
RECURSIVE CountersWithin(_, _, _)
CountersWithin(cfg, counters, k) ==
    IF k = 0 THEN counters
    ELSE CountersWithin(cfg,
             counters \cup
                 {NextConsecutiveDays(cfg,
                      IsAboveTrigger(cfg, obs.current_price, obs.conversion_price),
                      days) : days \in counters, obs \in Observations},
             k - 1)

\* some run of at most MaxHorizon daily observations ends in another level
LevelCanChange ==
    \E days \in CountersWithin(config, {consecutive_days}, MaxHorizon) :
        DetermineWarningLevel(config, days)
            # DetermineWarningLevel(config, consecutive_days)

\* a day's result reports another level than the day before only if the
\* counter moved
LevelFollowsCounter ==
    (/\ ret.op = "calculate_warning"
     /\ ret'.op = "calculate_warning"
     /\ ret'.warning_level # ret.warning_level) =>
        consecutive_days' # consecutive_days

\* C25 as stated: under every config and from every counter the fold
\* reaches, some run of daily observations ends in another warning level,
\* and the level changes only when the counter does.
C25_NoTerminalLevel ==
    /\ [](ret.op = "calculate_warning" => LevelCanChange)
    /\ [][LevelFollowsCounter]_vars

\* C25, amended: the same, except from a counter classified CRITICAL under
\* reset_on_below = false, where the counter never falls again.
C25_NoTerminalLevelUnlessLatched ==
    /\ [](/\ ret.op = "calculate_warning"
          /\ (config.reset_on_below \/ ret.warning_level # "CRITICAL")
          => LevelCanChange)
    /\ [][LevelFollowsCounter]_vars

\* a bond at CRITICAL after 30 days above trigger under the default config
C25_Witness ==
    /\ ret.op = "calculate_warning"
    /\ config = DefaultCBWarningConfig
    /\ consecutive_days = 30
    /\ ret.warning_level = "CRITICAL"
    /\ LevelCanChange

\* the counter of a bond whose observations are fed, alone and in order, to
\* a fresh calculator with config cfg
RECURSIVE CounterAlone(_, _)
CounterAlone(cfg, observed) ==
    IF observed = <<>> THEN 0
    ELSE LET n == Len(observed)
         IN  CalculateWarningResult(cfg,
                 [current_price |-> observed[n].current_price,
                  conversion_price |-> observed[n].conversion_price,
                  previous_consecutive_days |->
                      CounterAlone(cfg, SubSeq(observed, 1, n - 1)),
                  outstanding_balance |-> 35,
                  previous_balance |-> {35}]).consecutive_days

\* C26: calculate_warning and calculate_cb_score leave the calculator's
\* config as it was, and with the calls of several bonds interleaved in any
\* order on one calculator each bond's counter is what its own observations
\* alone give on a fresh calculator.
C26_SharedCalculatorIndependent ==
    /\ [](\A i \in Instruments :
              consecutive_days[i] = CounterAlone(config, history[i]))
    /\ [][config' = config]_vars

\* bond 1 has run up 2 days and bond 2 has been reset in between, with a
\* score call for bond 2 as the last call
C26_Witness ==
    /\ DOMAIN consecutive_days = Instruments
    /\ Len(history[1]) = 2
    /\ Len(history[2]) = 2
    /\ consecutive_days[1] = 2
    /\ consecutive_days[2] = 0
    /\ ret.op = "calculate_cb_score"
    /\ call.days_above_trigger = 0

\* C27: in every calculate_warning result is_above_trigger is true exactly
\* when the unrounded price_ratio is at least trigger_threshold_pct; with
\* conversion_price <= 0 the day is not above trigger and the counter is
\* not incremented.
C27_FlagAgreesWithRatio ==
    (ret.op = "calculate_warning" /\ ~ ret.raised) =>
        /\ ret.is_above_trigger <=>
               RLe(Int2R(config.trigger_threshold_pct),
                   PriceRatio(call.current_price, call.conversion_price))
        /\ call.conversion_price <= 0 =>
               /\ ~ ret.is_above_trigger
               /\ ret.consecutive_days # call.previous_consecutive_days + 1

\* calculate_cb_score without redemption at another premium rate, remaining
\* ratio or day count than the call's
ScoreAt(premium_rate, remaining_ratio, days_above_trigger) ==
    CalculateCbScore(premium_rate, remaining_ratio, days_above_trigger, FALSE)

\* C28a: without redemption, the score at a discount is at least the score
\* at any premium rate >= 0 with the same remaining_ratio and days.
DiscountAtLeastPremium ==
    (ret.op = "calculate_cb_score" /\ ~ call.redemption_called
        /\ RLt(call.premium_rate, Int2R(0))) =>
        \A q \in PremiumRates :
            RLe(Int2R(0), q) =>
                RLe(ScoreAt(q, call.remaining_ratio, call.days_above_trigger),
                    ret.value)

\* C28b: without redemption, the score does not fall when remaining_ratio
\* or days_above_trigger grows.
ScoreRisesWithRemainingAndDays ==
    (ret.op = "calculate_cb_score" /\ ~ call.redemption_called) =>
        /\ \A r \in RemainingRatios :
               RLe(call.remaining_ratio, r) =>
                   RLe(ret.value,
                       ScoreAt(call.premium_rate, r, call.days_above_trigger))
        /\ \A d \in -1 .. MaxPrev :
               call.days_above_trigger <= d =>
                   RLe(ret.value,
                       ScoreAt(call.premium_rate, call.remaining_ratio, d))

\* C28: with redemption_called false a discount never scores below a
\* premium, and the score is non-decreasing in remaining_ratio and in
\* days_above_trigger.
C28_DiscountNeverBelowPremium ==
    DiscountAtLeastPremium /\ ScoreRisesWithRemainingAndDays

\* the number a supplied value stands for: that of a numeric string, or the
\* value itself
NumberOf(v) ==
    IF v.type # "str" THEN v.num
    ELSE CASE v.text = "125.0" -> Rat(125, 1)
           [] v.text = "20"    -> Rat(20, 1)
           [] v.text = "20.0"  -> Rat(20, 1)
           [] v.text = "0.25"  -> Rat(1, 4)
           [] v.text = "0.75"  -> Rat(3, 4)

\* False, 0, 'false' and '0'
DenotesFalse(v) ==
    IF v.type = "str" THEN v.text \in {"false", "0"} ELSE v.num = Int2R(0)

\* C29: from_dict does not fail; every missing key gets its default (130,
\* 30, reset true, 0.33, 0.66), every supplied number or numeric string is
\* stored as its number, and reset_on_below is false exactly when the
\* supplied CB_RESET_ON_BELOW denotes false.
C29_FromDictHonoursValues ==
    ret.op = "from_dict" =>
        LET d == call.config
            Supplied(key, default) ==
                IF key \in DOMAIN d THEN NumberOf(d[key]) ELSE Int2R(default)
        IN  /\ ~ ret.raised
            /\ Int2R(ret.value.trigger_threshold_pct)
                   = Supplied("CB_TRIGGER_THRESHOLD_PCT", 130)
            /\ Int2R(ret.value.trigger_days_required)
                   = Supplied("CB_TRIGGER_DAYS_REQUIRED", 30)
            /\ Hundredths(ret.value.caution_threshold_pct)
                   = (IF "CB_CAUTION_THRESHOLD_PCT" \in DOMAIN d
                      THEN NumberOf(d["CB_CAUTION_THRESHOLD_PCT"]) ELSE Rat(33, 100))
            /\ Hundredths(ret.value.warning_threshold_pct)
                   = (IF "CB_WARNING_THRESHOLD_PCT" \in DOMAIN d
                      THEN NumberOf(d["CB_WARNING_THRESHOLD_PCT"]) ELSE Rat(66, 100))
            /\ ret.value.reset_on_below
                   = (IF "CB_RESET_ON_BELOW" \in DOMAIN d
                      THEN ~ DenotesFalse(d["CB_RESET_ON_BELOW"]) ELSE TRUE)

\* the attempts execute has started
Attempts == 1 .. scraper.attempt

\* what the log holds for one attempt, in order
LogOf(attempt) ==
    LET mine == SelectSeq(scraper.log, LAMBDA e : e.attempt = attempt)
    IN  [k \in 1 .. Len(mine) |-> mine[k].did]

\* attempts that ended in an exception
FailedAttempts == {a \in Attempts : \E k \in 1 .. Len(LogOf(a)) : LogOf(a)[k] = "failed"}

=============================================================================
